---- MODULE Spec2Model ----
(***************************************************************************)
(* Model of the signum-miner round engine: the Miner Controller            *)
(* (src/src/miner.rs), the Hash Dispatcher (src/src/cpu_worker.rs), the    *)
(* priority-retry stream (src/src/future/prio_retry.rs) and the submission *)
(* pipeline (src/src/requests.rs, src/src/com/client.rs).                  *)
(***************************************************************************)
EXTENDS Integers, Sequences, FiniteSets, Bags, TLC

(***************************************************************************)
(* Bounds of the model                                                     *)
(***************************************************************************)
\* scaled stand-in for u64::MAX (all u64 quantities live in 0..U64_MAX)
U64_MAX == 7
\* number of NonceData the hash path emits in a run of the controller
MaxNonces == 2
\* number of drives (Miner.reader_task_count = drive_id_to_plots.len())
ReaderTaskCount == 1
\* cfg.cpu_threads and cfg.cpu_worker_task_count
CpuThreads == 1
CpuWorkerTaskCount == 1
\* cfg.hdd_wakeup_after, in stopwatch ticks
WakeupAfter == 1
\* number of ReadReplies the Reader pushes in a run of the dispatcher
MaxReads == 2
\* number of submissions the pool answers with a retryable error
MaxRetries == 1
\* number of SubmissionParameters put on the channel in a run of the pipeline
MaxItems == 3
\* requests.rs line 64: the delay of PrioRetry, in seconds
DelaySecs == 3

(***************************************************************************)
(* Input domains                                                           *)
(***************************************************************************)
Accounts == {1, 2}
\* generation signatures on the wire: hex strings, kept as digit sequences
GenSigA == <<"0", "a">>
GenSigB == <<"0", "b">>
\* the deadlines (before division by the base target) the PoC kernel finds
DeadlinesUnadjusted == {2, 4}

Min(a, b) == IF a < b THEN a ELSE b

Max(a, b) == IF a > b THEN a ELSE b

\* the configurations explored: cfg.submit_only_best, cfg.target_deadline and
\* cfg.account_id_to_target_deadline (account 1 has its own target deadline)
Configs ==
  [submit_only_best : BOOLEAN,
   benchmark_io : {FALSE},
   target_deadline : {5},
   account_id_to_target_deadline : {[a \in {1} |-> 2]}]

\* the configurations the dispatcher is explored under: with and without
\* cfg.benchmark_io()
DispatchConfigs ==
  [submit_only_best : {FALSE},
   benchmark_io : BOOLEAN,
   target_deadline : {5},
   account_id_to_target_deadline : {[a \in {1} |-> 2]}]

\* the configurations the submission pipeline is explored under: default mode
SubmitConfigs ==
  [submit_only_best : {FALSE},
   benchmark_io : {FALSE},
   target_deadline : {5},
   account_id_to_target_deadline : {[a \in {1} |-> 2]}]

\* ReadReply.info.len and ReadReply.info.gpu_signal: an empty reply, a reply
\* of one scoop, and a GPU signal
ReplyShapes ==
  {[len |-> 0, gpu_signal |-> 0], [len |-> 64, gpu_signal |-> 0],
   [len |-> 1, gpu_signal |-> 1]}

\* the MiningInfo responses the pool can send
MiningInfo(gensig, height, base_target, target_deadline) ==
  [generation_signature |-> gensig, height |-> height,
   base_target |-> base_target, target_deadline |-> target_deadline]

\* two blocks at height 1 (a reorg), a block at height 0, a pool that caps the
\* deadline, a pool that does not, and a base target of 0
MiningInfos ==
  {MiningInfo(GenSigA, 1, 1, U64_MAX),
   MiningInfo(GenSigB, 1, 2, U64_MAX),
   MiningInfo(GenSigA, 0, 2, 3),
   MiningInfo(GenSigB, 0, 0, U64_MAX)}

\* the SubmissionParameters fed to the submission pipeline on its own: two
\* rounds, each with its generation signature; accounts 1 and 2 with the same
\* deadline and account 3 with a larger one
PipelineItems ==
  {[account_id |-> x.account_id, nonce |-> x.account_id, height |-> b,
    block |-> b, deadline_unadjusted |-> x.deadline, deadline |-> x.deadline,
    gen_sig |-> IF b = 1 THEN <<10>> ELSE <<11>>] :
     b \in {1, 2},
     x \in {[account_id |-> 1, deadline |-> 1],
            [account_id |-> 2, deadline |-> 1],
            [account_id |-> 3, deadline |-> 2]}}

\* SubmissionParameters to compare: two blocks, two generation signatures
\* (also at the same block), two deadlines (found at base target 6), two
\* accounts
CmpItems ==
  {[account_id |-> a, nonce |-> a + 2, height |-> b + 9, block |-> b,
    deadline_unadjusted |-> 6 * d, deadline |-> d, gen_sig |-> g] :
     a \in Accounts, b \in {1, 2}, d \in {1, 2}, g \in {<<10>>, <<11>>}}

\* cfg.account_id_to_secret_phrase: no phrase, a phrase for account 1, an
\* empty phrase for account 1
SecretPhraseConfigs ==
  {<<>>, [a \in {1} |-> <<"p", " ", "&", "=">>], [a \in {1} |-> <<>>]}

\* cfg.additional_headers: none, or a header named like one the client sets
\* itself
AdditionalHeaderConfigs ==
  {<<>>, [h \in {"x-deadline"} |-> <<"9">>],
   [h \in {"x-capacity"} |-> <<"9">>], [h \in {"user-agent"} |-> <<"9">>]}

\* cfg.send_proxy_details
ProxyDetails == {"Disabled", "Enabled"}

\* total capacities in GiB, at start and after a rescan
CapacitiesGb == {1, 2}

\* the arguments of a call of a Pool Client function, and the configuration
\* the client was built from
ClientCalls ==
  [a : CmpItems, b : CmpItems, secret_phrases : SecretPhraseConfigs,
   additional_headers : AdditionalHeaderConfigs,
   proxy_details : ProxyDetails, total_size_gb : {1}]

\* get_mining_info_interval, in seconds
IntervalSecs == 3

\* cfg.timeout of a request, in seconds
TimeoutSecs == 10

\* the clock stops at this instant
MaxTime == 16

\* the largest thread and task counts of a configuration
MaxWorkers == 2

\* the worker settings of a configuration, and whether the build has the
\* opencl feature
StartConfigs ==
  [opencl : BOOLEAN, cpu_threads : 0..MaxWorkers,
   cpu_worker_task_count : 0..MaxWorkers, gpu_threads : 0..1,
   gpu_worker_task_count : 0..1, gpu_async : BOOLEAN]

\* the largest number of drives a scan of the plot directories finds
MaxDrives == 2

\* the drives a scan of the plot directories can find
PlotSets == SUBSET (1..MaxDrives)

\* the number of scoops a buffer holds
MaxScoops == 3

\* the contents of a scoop: 64 bytes of the same value
ScoopValues == {0, 5, 7}

\* the buffers the kernel is called on
KernelBuffers == [1..MaxScoops -> ScoopValues]

VARIABLES
  cfg,               \* the configuration the Miner was built from
  state,             \* miner.rs State (RoundState), behind Miner.state
  best_nonce_data,   \* the submit_only_best stash captured by the nonce consumer
  rx_nonce_data,     \* the NonceData channel (tx_nonce_data -> rx_nonce_data)
  consumer_alive,    \* the nonce consumer task has not aborted
  poller_alive,      \* the mining-info poll task has not aborted
  tx_submit_data,    \* RequestHandler.tx_submit_data (unbounded channel)
  reader_rounds,     \* arguments of every Reader.start_reading call so far
  out,               \* outage log lines and Reader.wakeup calls of the last poll
  round_finished,    \* value of State.block at every "round finished" log line
  gensig_changes,    \* number of polls whose generation signature differed
  nonces_emitted,    \* number of NonceData emitted by the hash path so far
  consumed,          \* the NonceData the nonce consumer has taken, in order,
                     \* each with the value of State.block when it was taken
  empty_buffers,     \* number of buffers in the empty-buffer channel
  rx_read_replies,   \* the ReadReply channel of the CPU worker
  pool_queue,        \* hash tasks spawned on the thread pool, not yet started
  running,           \* hash tasks a pool thread is running
  reads_issued,      \* number of ReadReplies the Reader has pushed
  buffers_sent,      \* per ReadReply pushed, how often its buffer was sent back
  delayed_item,      \* PrioRetry.delayed_item: <<>> or the one held item
  delay,             \* PrioRetry.delay: seconds until the timer is ready
  buffer,            \* PrioRetry.buffer, the heap
  submitting,        \* <<>> or the item whose submitNonce request is in flight
  sent,              \* the submitNonce requests sent to the pool, in order
  retries,           \* number of retryable answers so far
  answer,            \* the answer to the last submitNonce request ("" at start)
  arrived,           \* the items put on the channel by the feeder of the
                     \* pipeline and, as a retry, by the submission task, each
                     \* with the number of requests sent before it
  held_age,          \* seconds the held item has been held, up to DelaySecs
  since_emit,        \* seconds since PrioRetry gave out an item, up to DelaySecs
  waits,             \* per item PrioRetry gave out, the seconds it was held
  client_in,         \* the arguments of a call of a Pool Client function
  client_out,        \* <<>> or what the call returned: a value or the request
  pool_client,       \* <<>> or the Pool Client: its configuration and headers
  now,               \* the clock of the runtime, in seconds
  interval_sleep,    \* Interval.sleep: the instant the timer is ready at
  tick_fut,          \* <<>> or the handling of a tick that for_each is running
  done_at,           \* <<>> or <<the instant the last handling completed at,
                     \* the instant its tick was yielded at>>
  start_cfg,         \* <<>> or the worker settings Miner::new is called with
  process,           \* <<>> or what Miner::new did: its log and the exit
  reader_plots,      \* Reader.drive_id_to_plots: the drives of the plot set
  round_plots,       \* per Reader.start_reading call, the plot set it read
  finished_sent,     \* the <<block, drive>> whose finished signal was emitted
  kernel,            \* <<>> or a call of the PoC kernel and what it returned
  clones,            \* per task that holds a clone of the Pool Client: <<>> or
                     \* <<the clone>>
  last_rescan,       \* <<>> or <<the capacity in GiB the last rescan found>>
  async_io,          \* the build has the async_io feature (tokio Mutex)
  locks,             \* per mutex of the Miner, the task that holds it, or ""
  task_pc            \* per task of Miner::run, the place it is at

dispVars == <<empty_buffers, rx_read_replies, pool_queue, running,
              reads_issued, buffers_sent>>

subVars == <<delayed_item, delay, buffer, submitting, sent, retries>>

pipeVars == <<answer, arrived, held_age, since_emit, waits>>

clientVars == <<client_in, client_out, pool_client>>

intervalVars == <<now, interval_sleep, tick_fut, done_at>>

startVars == <<start_cfg, process>>

readerVars == <<reader_plots, round_plots, finished_sent>>

capVars == <<clones, last_rescan>>

lockVars == <<async_io, locks, task_pc>>

restVars == <<intervalVars, startVars, readerVars, kernel, capVars, lockVars,
              poller_alive>>

vars == <<cfg, state, best_nonce_data, rx_nonce_data, consumer_alive,
          tx_submit_data, reader_rounds, out, round_finished, gensig_changes,
          nonces_emitted, consumed, dispVars, subVars, pipeVars, clientVars,
          restVars>>

(***************************************************************************)
(* poc_hashing helpers (black boxes of the controller)                     *)
(***************************************************************************)
HexVal(c) ==
  CASE c = "0" -> 0 [] c = "1" -> 1 [] c = "a" -> 10 [] c = "b" -> 11
    [] OTHER -> 0

\* poc_hashing::decode_gensig: hex string -> raw bytes
DecodeGensig(s) ==
  [i \in 1..(Len(s) \div 2) |-> HexVal(s[2 * i - 1]) * 16 + HexVal(s[2 * i])]

\* poc_hashing::calculate_scoop: a hash of (gensig, height) reduced mod 4096
CalculateScoop(height, gensig_bytes) ==
  (gensig_bytes[1] * 40503 + height * 2971) % 4096

(***************************************************************************)
(* miner.rs: State                                                         *)
(***************************************************************************)
StopwatchNew == [running |-> FALSE, elapsed |-> 0]

StopwatchRestart == [running |-> TRUE, elapsed |-> 0]

StateNew ==
  [generation_signature |-> <<>>,
   generation_signature_bytes |-> <<0>>,
   height |-> 0,
   block |-> 0,
   scoop |-> 0,
   account_id_to_best_deadline |-> <<>>,
   server_target_deadline |-> U64_MAX,
   base_target |-> 1,
   processed_reader_tasks |-> 0,
   sw |-> StopwatchNew,
   scanning |-> FALSE,
   first |-> TRUE,
   outage |-> FALSE]

KeepBestDeadlines(best) == best

\* lines 98-100: every account's best deadline back to u64::MAX
ResetBestDeadlines(best) == [a \in DOMAIN best |-> U64_MAX]

UpdateMiningInfo(s, mining_info) ==
  LET bytes == DecodeGensig(mining_info.generation_signature) IN
  [s EXCEPT
     !.account_id_to_best_deadline =
        ResetBestDeadlines(s.account_id_to_best_deadline),
     !.height = mining_info.height,
     !.block = s.block + 1,
     !.base_target = mining_info.base_target,
     !.server_target_deadline = mining_info.target_deadline,
     !.generation_signature_bytes = bytes,
     !.generation_signature = mining_info.generation_signature,
     !.scoop = CalculateScoop(mining_info.height, bytes),
     !.sw = StopwatchRestart,
     !.processed_reader_tasks = 0,
     !.scanning = TRUE]

BestNonceDataInit ==
  [height |-> 0, block |-> 0, base_target |-> 0, deadline |-> 0, nonce |-> 0,
   reader_task_processed |-> FALSE, account_id |-> 0]

\* lines 255-260 and 335: the number of buffers Miner::new creates
BufferCount ==
  CpuWorkerTaskCount + (IF CpuWorkerTaskCount > 0 THEN CpuThreads ELSE 0)

\* everything Miner::new and Miner::run set up, but the configuration
Boot ==
  /\ state = StateNew
  /\ best_nonce_data = BestNonceDataInit
  /\ rx_nonce_data = <<>>
  /\ consumer_alive = TRUE
  /\ poller_alive = TRUE
  /\ tx_submit_data = <<>>
  /\ reader_rounds = <<>>
  /\ out = <<>>
  /\ round_finished = <<>>
  /\ gensig_changes = 0
  /\ nonces_emitted = 0
  /\ consumed = <<>>
  /\ empty_buffers = BufferCount
  /\ rx_read_replies = <<>>
  /\ pool_queue = <<>>
  /\ running = EmptyBag
  /\ reads_issued = 0
  /\ buffers_sent = <<>>
  /\ delayed_item = <<>>
  /\ delay = DelaySecs
  /\ buffer = EmptyBag
  /\ submitting = <<>>
  /\ sent = <<>>
  /\ retries = 0
  /\ client_out = <<>>
  /\ pool_client = <<>>
  /\ now = 0
  /\ interval_sleep = IntervalSecs
  /\ tick_fut = <<>>
  /\ done_at = <<>>
  /\ process = <<>>
  /\ reader_plots = 1..ReaderTaskCount
  /\ round_plots = <<>>
  /\ finished_sent = {}
  /\ kernel = <<>>
  /\ clones = [t \in {"submission", "poller"} |-> <<>>]
  /\ last_rescan = <<>>
  /\ locks = [m \in {"state", "reader", "request_handler"} |-> ""]
  /\ task_pc = [t \in {"poller", "rescan", "consumer"} |->
                  IF t = "consumer" THEN "recv" ELSE "sleep"]
  /\ answer = ""
  /\ arrived = <<>>
  /\ held_age = 0
  /\ since_emit = DelaySecs
  /\ waits = <<>>

Init ==
  /\ cfg \in Configs /\ Boot /\ client_in = <<>> /\ start_cfg = <<>>
  /\ async_io = FALSE

InitDispatch ==
  /\ cfg \in DispatchConfigs /\ Boot /\ client_in = <<>> /\ start_cfg = <<>>
  /\ async_io = FALSE

InitSubmit ==
  /\ cfg \in SubmitConfigs /\ Boot /\ client_in = <<>> /\ start_cfg = <<>>
  /\ async_io = FALSE

\* a Pool Client function is called with any arguments
InitClient ==
  /\ cfg \in SubmitConfigs /\ Boot /\ client_in \in ClientCalls
  /\ start_cfg = <<>>
  /\ async_io = FALSE

(***************************************************************************)
(* miner.rs: mining-info poll                                              *)
(***************************************************************************)
HeightChanged(s, mining_info) == mining_info.height # s.height

\* the test of line 567
GensigChanged(s, mining_info) ==
  mining_info.generation_signature # s.generation_signature

\* the Ok arm of one poll if start_reading were handed the block after the
\* one State was advanced to
PollOkEffectStartsNextBlock(s, mining_info) ==
  LET s2 == [s EXCEPT !.first = FALSE, !.outage = FALSE]
      log1 == IF s.outage THEN <<"log: outage resolved.">> ELSE <<>>
  IN IF GensigChanged(s2, mining_info)
     THEN LET s3 == UpdateMiningInfo(s2, mining_info) IN
          [state |-> s3,
           out |-> log1,
           start |-> <<[height |-> mining_info.height, block |-> s3.block + 1,
                        base_target |-> mining_info.base_target,
                        scoop |-> s3.scoop,
                        gensig |-> s3.generation_signature_bytes]>>]
     ELSE [state |-> s2, out |-> log1, start |-> <<>>]

\* the Ok(mining_info) arm of one poll
PollOkEffect(s, mining_info) ==
  LET s1 == [s EXCEPT !.first = FALSE]
      log1 == IF s1.outage THEN <<"log: outage resolved.">> ELSE <<>>
      s2 == [s1 EXCEPT !.outage = FALSE]
  IN IF GensigChanged(s2, mining_info)
     THEN LET s3 == UpdateMiningInfo(s2, mining_info) IN
          [state |-> s3,
           out |-> log1,
           start |-> <<[height |-> mining_info.height, block |-> s3.block,
                        base_target |-> mining_info.base_target,
                        scoop |-> s3.scoop,
                        gensig |-> s3.generation_signature_bytes]>>]
     ELSE IF ~s2.scanning /\ WakeupAfter # 0 /\ s2.sw.elapsed > WakeupAfter
     THEN [state |-> [s2 EXCEPT !.sw = StopwatchRestart],
           out |-> log1 \o <<"log: HDD, wakeup!", "wakeup">>,
           start |-> <<>>]
     ELSE [state |-> s2, out |-> log1, start |-> <<>>]

\* Reader::start_reading reads the plot set the Reader holds when it is called
StartReadingPlots(start, plots) == [i \in DOMAIN start |-> plots]

\* lines 561, 602 and 663: without async_io the mutex of State is a
\* std::sync::Mutex; it is poisoned once the nonce consumer has panicked with
\* the guard held (the divisions of lines 665 and 728 are under the guard),
\* and lock().unwrap() panics on it
StatePoisoned == ~async_io /\ ~consumer_alive

\* the generation signatures of the blocks the pool has published so far
Published ==
  {DecodeGensig(m.generation_signature) : m \in MiningInfos}
    \cap {reader_rounds[i].gensig : i \in DOMAIN reader_rounds}

\* One poll that the pool answers. The pool answers with its current block,
\* and a block's generation signature is never published again once a later
\* block has replaced it.
PollOk ==
  /\ poller_alive
  /\ IF StatePoisoned
       THEN /\ poller_alive' = FALSE
            /\ UNCHANGED <<state, out, reader_rounds, round_plots,
                           gensig_changes>>
       ELSE /\ UNCHANGED poller_alive
            /\ \E mining_info \in MiningInfos :
                 LET r == PollOkEffect(state, mining_info)
                     changed == mining_info.generation_signature
                                  # state.generation_signature
                 IN /\ changed =>
                         DecodeGensig(mining_info.generation_signature)
                           \notin Published
                    /\ state' = r.state
                    /\ out' = r.out
                    /\ reader_rounds' = reader_rounds \o r.start
                    /\ round_plots' =
                         round_plots \o StartReadingPlots(r.start, reader_plots)
                    /\ gensig_changes' =
                         gensig_changes + (IF changed THEN 1 ELSE 0)
  /\ UNCHANGED <<cfg, best_nonce_data, rx_nonce_data, consumer_alive,
                 tx_submit_data, round_finished, nonces_emitted,
                 consumed, dispVars, subVars, pipeVars, clientVars,
                 intervalVars, startVars, reader_plots, finished_sent,
                 kernel, capVars, lockVars>>

\* the error arm of one poll if every failure after the first were logged too
PollErrEffectLogsEvery(s) ==
  IF s.first
  THEN [state |-> [s EXCEPT !.first = FALSE, !.outage = TRUE],
        out |-> <<"log: error getting mining info, please check server config">>]
  ELSE [state |-> [s EXCEPT !.outage = TRUE],
        out |-> <<"log: error getting mining info => connection outage...">>]

\* the error arm of one poll if a failed poll also ended the scan
PollErrEffectStopsScanning(s) ==
  IF s.first
  THEN [state |-> [s EXCEPT !.first = FALSE, !.outage = TRUE,
                            !.scanning = FALSE],
        out |-> <<"log: error getting mining info, please check server config">>]
  ELSE IF ~s.outage
  THEN [state |-> [s EXCEPT !.outage = TRUE, !.scanning = FALSE],
        out |-> <<"log: error getting mining info => connection outage...">>]
  ELSE [state |-> [s EXCEPT !.scanning = FALSE], out |-> <<>>]

\* the error arm of one poll
PollErrEffect(s) ==
  IF s.first
  THEN [state |-> [s EXCEPT !.first = FALSE, !.outage = TRUE],
        out |-> <<"log: error getting mining info, please check server config">>]
  ELSE IF ~s.outage
  THEN [state |-> [s EXCEPT !.outage = TRUE],
        out |-> <<"log: error getting mining info => connection outage...">>]
  ELSE [state |-> s, out |-> <<>>]

PollErr ==
  /\ poller_alive
  /\ IF StatePoisoned
       THEN poller_alive' = FALSE /\ UNCHANGED <<state, out>>
       ELSE LET r == PollErrEffect(state) IN
            /\ state' = r.state
            /\ out' = r.out
            /\ UNCHANGED poller_alive
  /\ UNCHANGED <<cfg, best_nonce_data, rx_nonce_data, consumer_alive,
                 tx_submit_data, reader_rounds, round_finished, gensig_changes,
                 nonces_emitted, consumed, dispVars, subVars, pipeVars,
                 clientVars, intervalVars, startVars, readerVars, kernel,
                 capVars, lockVars>>

(***************************************************************************)
(* cpu_worker.rs: the NonceData a hash task emits                          *)
(***************************************************************************)
\* the sentinel of a zero-length (or benchmark) finished reply
SentinelNonceData(info) ==
  [height |-> info.height, block |-> info.block,
   base_target |-> info.base_target, deadline |-> U64_MAX, nonce |-> 0,
   reader_task_processed |-> info.finished, account_id |-> info.account_id]

\* the result of hashing a non-empty reply: the kernel's (deadline, offset)
HashedNonceData(info, deadline, offset) ==
  [height |-> info.height, block |-> info.block,
   base_target |-> info.base_target, deadline |-> deadline,
   nonce |-> offset + info.start_nonce,
   reader_task_processed |-> info.finished, account_id |-> info.account_id]

\* the read-infos the Reader attaches to the replies of the rounds started so
\* far: the round tag handed to start_reading, the plot's account and nonce
\* range, and the finished flag
ReadInfos(k) ==
  {[height |-> r.height, block |-> r.block, base_target |-> r.base_target,
    gensig |-> r.gensig, scoop |-> r.scoop, account_id |-> a,
    start_nonce |-> k, finished |-> f] :
     r \in {reader_rounds[i] : i \in DOMAIN reader_rounds},
     a \in Accounts, f \in BOOLEAN}

\* the hash path of the controller's view: one hash task delivers its NonceData
EmitNonceData ==
  /\ nonces_emitted < MaxNonces
  /\ consumer_alive
  /\ Len(rx_nonce_data) < BufferCount
  /\ \E info \in ReadInfos(nonces_emitted + 1) :
       \E nd \in {HashedNonceData(info, d, 0) : d \in DeadlinesUnadjusted}
                   \cup (IF info.finished THEN {SentinelNonceData(info)} ELSE {}) :
         rx_nonce_data' = Append(rx_nonce_data, nd)
  /\ nonces_emitted' = nonces_emitted + 1
  /\ UNCHANGED <<cfg, state, best_nonce_data, consumer_alive, tx_submit_data,
                 reader_rounds, out, round_finished, gensig_changes, consumed,
                 dispVars, subVars,
                 pipeVars, clientVars, restVars>>

(***************************************************************************)
(* miner.rs: the nonce consumer                                            *)
(***************************************************************************)
MapGet(m, k, default) == IF k \in DOMAIN m THEN m[k] ELSE default

MapInsert(m, k, v) ==
  [a \in DOMAIN m \cup {k} |-> IF a = k THEN v ELSE m[a]]

\* RequestHandler::submit_nonce: the SubmissionParameters put on the channel
SubmissionParameters(nd, deadline, gen_sig) ==
  [account_id |-> nd.account_id, nonce |-> nd.nonce, height |-> nd.height,
   block |-> nd.block, deadline_unadjusted |-> nd.deadline,
   deadline |-> deadline, gen_sig |-> gen_sig]

\* the cap of lines 673-678
DeadlineCap(s, c, account_id) ==
  Min(s.server_target_deadline,
      MapGet(c.account_id_to_target_deadline, account_id, c.target_deadline))

AcceptsAtCap(s, c, account_id, deadline) ==
  /\ MapGet(s.account_id_to_best_deadline, account_id, U64_MAX) > deadline
  /\ deadline <= DeadlineCap(s, c, account_id)

\* the test of lines 671-679
Accepts(s, c, account_id, deadline) ==
  /\ MapGet(s.account_id_to_best_deadline, account_id, U64_MAX) > deadline
  /\ deadline < DeadlineCap(s, c, account_id)

SameRoundAlways(s, nd) == TRUE

\* the test of line 666
SameRound(s, nd) == s.height = nd.height

SubmitsNowAlways(c) == TRUE

\* the test of line 684: forward an accepted nonce at once, or stash it
SubmitsNow(c) == ~c.submit_only_best

RoundDoneAtLeast(s) == s.processed_reader_tasks >= ReaderTaskCount

\* the test of line 712
RoundDone(s) == s.processed_reader_tasks = ReaderTaskCount

\* One run of the consumer's closure on nonce_data. The result carries the new
\* state, stash and submit channel, the log lines, and whether the closure ran
\* to its end (a division by zero aborts the task where it stands).
ConsumeEffect(s, c, stash, submit, nonce_data) ==
  IF nonce_data.base_target = 0
  THEN [state |-> s, stash |-> stash, submit |-> submit, out |-> <<>>,
        alive |-> FALSE]
  ELSE
  LET deadline == nonce_data.deadline \div nonce_data.base_target IN
  IF ~SameRound(s, nonce_data)
  THEN [state |-> s, stash |-> stash, submit |-> submit, out |-> <<>>,
        alive |-> TRUE]
  ELSE
  LET accept == Accepts(s, c, nonce_data.account_id, deadline)
      s1 == IF accept
            THEN [s EXCEPT !.account_id_to_best_deadline =
                     MapInsert(@, nonce_data.account_id, deadline)]
            ELSE s
      stash1 == IF accept /\ ~SubmitsNow(c) THEN nonce_data ELSE stash
      submit1 == IF accept /\ SubmitsNow(c)
                 THEN Append(submit,
                             SubmissionParameters(nonce_data, deadline,
                                                  s.generation_signature_bytes))
                 ELSE submit
  IN
  IF ~nonce_data.reader_task_processed
  THEN [state |-> s1, stash |-> stash1, submit |-> submit1, out |-> <<>>,
        alive |-> TRUE]
  ELSE
  LET s2 == [s1 EXCEPT !.processed_reader_tasks = @ + 1] IN
  IF ~RoundDone(s2)
  THEN [state |-> s2, stash |-> stash1, submit |-> submit1, out |-> <<>>,
        alive |-> TRUE]
  ELSE IF stash1.height # s2.height
  THEN [state |-> [s2 EXCEPT !.sw = StopwatchRestart, !.scanning = FALSE],
        stash |-> stash1, submit |-> submit1,
        out |-> <<"log: round finished">>, alive |-> TRUE]
  ELSE IF stash1.base_target = 0
  THEN [state |-> s2, stash |-> stash1, submit |-> submit1,
        out |-> <<"log: round finished">>, alive |-> FALSE]
  ELSE [state |-> [s2 EXCEPT !.sw = StopwatchRestart, !.scanning = FALSE],
        stash |-> stash1,
        submit |-> Append(submit1,
                          SubmissionParameters(
                            stash1, stash1.deadline \div stash1.base_target,
                            s2.generation_signature_bytes)),
        out |-> <<"log: round finished">>, alive |-> TRUE]

ConsumeNonce ==
  /\ consumer_alive
  /\ rx_nonce_data # <<>>
  /\ LET r == ConsumeEffect(state, cfg, best_nonce_data, tx_submit_data,
                            Head(rx_nonce_data))
     IN /\ state' = r.state
        /\ best_nonce_data' = r.stash
        /\ tx_submit_data' = r.submit
        /\ consumer_alive' = r.alive
        /\ rx_nonce_data' = IF r.alive THEN Tail(rx_nonce_data) ELSE <<>>
        /\ round_finished' =
             IF "log: round finished" \in {r.out[i] : i \in DOMAIN r.out}
             THEN Append(round_finished, r.state.block)
             ELSE round_finished
  /\ consumed' = Append(consumed, [nonce_data |-> Head(rx_nonce_data),
                                   block |-> state.block])
  /\ UNCHANGED <<cfg, reader_rounds, out, gensig_changes, nonces_emitted,
                 dispVars, subVars,
                 pipeVars, clientVars, restVars>>

\* Time passes on the round stopwatch. The stopwatch is read at line 588 only,
\* with scanning = false, and both ways into scanning = false restart it, so
\* the time that passes while scanning is never read.
Tick ==
  /\ state.sw.running
  /\ ~state.scanning
  /\ state.sw.elapsed <= WakeupAfter
  /\ state' = [state EXCEPT !.sw.elapsed = @ + 1]
  /\ UNCHANGED <<cfg, best_nonce_data, rx_nonce_data, consumer_alive,
                 tx_submit_data, reader_rounds, out, round_finished,
                 gensig_changes, nonces_emitted, consumed,
                 dispVars, subVars,
                 pipeVars, clientVars, restVars>>

(***************************************************************************)
(* reader.rs (not in src/): the Reader lends a buffer of the pool to a     *)
(* ReadReply and pushes the reply to the CPU worker                        *)
(***************************************************************************)
\* the ReadInfo of the k-th reply: the tags of ReadInfos, a length and a GPU
\* signal
ReadReplyInfos(k) ==
  {[height |-> i.height, block |-> i.block, base_target |-> i.base_target,
    gensig |-> i.gensig, scoop |-> i.scoop, account_id |-> i.account_id,
    start_nonce |-> i.start_nonce, finished |-> i.finished,
    len |-> sh.len, gpu_signal |-> sh.gpu_signal] :
     i \in ReadInfos(k), sh \in ReplyShapes}

\* a reader task takes an empty buffer (blocking while there is none), fills
\* it and pushes the ReadReply into the bounded reply channel
ReaderRead ==
  /\ reads_issued < MaxReads
  /\ empty_buffers > 0
  /\ Len(rx_read_replies) < BufferCount
  /\ \E info \in ReadReplyInfos(reads_issued + 1) :
       rx_read_replies' = Append(rx_read_replies, info)
  /\ empty_buffers' = empty_buffers - 1
  /\ reads_issued' = reads_issued + 1
  /\ buffers_sent' = Append(buffers_sent, 0)
  /\ UNCHANGED <<cfg, state, best_nonce_data, rx_nonce_data, consumer_alive,
                 tx_submit_data, reader_rounds, out, round_finished,
                 gensig_changes, nonces_emitted, consumed, pool_queue, running,
                 subVars,
                 pipeVars, clientVars, restVars>>

(***************************************************************************)
(* cpu_worker.rs: create_cpu_worker_task and hash                          *)
(***************************************************************************)
\* lines 84-93: the worker loop takes a reply and spawns its hash task
WorkerSpawn ==
  /\ rx_read_replies # <<>>
  /\ pool_queue' = Append(pool_queue, Head(rx_read_replies))
  /\ rx_read_replies' = Tail(rx_read_replies)
  /\ UNCHANGED <<cfg, state, best_nonce_data, rx_nonce_data, consumer_alive,
                 tx_submit_data, reader_rounds, out, round_finished,
                 gensig_changes, nonces_emitted, consumed, empty_buffers,
                 running, reads_issued, buffers_sent, subVars,
                 pipeVars, clientVars, restVars>>

\* a hash task that has no NonceData to send (any more)
NoNonceData == [deadline |-> 0, nonce |-> 0]

\* a running hash task: the reply's info (the task owns the reply's buffer),
\* the channel operation it is at, and the NonceData it is about to send
HashTask(info, pc, nd) == [info |-> info, pc |-> pc, nd |-> nd]

\* the branch taken if benchmark mode were not looked at
HashPathNoBenchmark(info, benchmark) ==
  IF info.len = 0
    THEN (IF info.finished THEN "sentinel" ELSE "empty")
    ELSE IF info.len = 1 /\ info.gpu_signal > 0 THEN "signal" ELSE "hash"

\* lines 106-125: the branch the hash closure takes
HashPath(info, benchmark) ==
  IF info.len = 0 \/ benchmark
    THEN (IF info.finished THEN "sentinel" ELSE "empty")
    ELSE IF info.len = 1 /\ info.gpu_signal > 0 THEN "signal" ELSE "hash"

\* lines 104-222: a pool thread starts a hash task and runs it up to its first
\* channel operation; the kernel's result is any deadline (offset 0)
HashStart ==
  /\ pool_queue # <<>>
  /\ BagCardinality(running) < CpuThreads
  /\ LET info == Head(pool_queue)
         path == HashPath(info, cfg.benchmark_io)
     IN  /\ pool_queue' = Tail(pool_queue)
         /\ CASE path = "sentinel" ->
                   running' = running (+)
                     SetToBag({HashTask(info, "send", SentinelNonceData(info))})
              [] path = "empty" ->
                   running' = running (+)
                     SetToBag({HashTask(info, "return", NoNonceData)})
              [] path = "signal" ->
                   running' = running
              [] path = "hash" ->
                   \E d \in DeadlinesUnadjusted :
                     running' = running (+)
                       SetToBag({HashTask(info, "send",
                                          HashedNonceData(info, d, 0))})
  /\ UNCHANGED <<cfg, state, best_nonce_data, rx_nonce_data, consumer_alive,
                 tx_submit_data, reader_rounds, out, round_finished,
                 gensig_changes, nonces_emitted, consumed, empty_buffers,
                 rx_read_replies, reads_issued, buffers_sent, subVars,
                 pipeVars, clientVars, restVars>>

\* lines 109-117 and 224-232: blocking_send waits for room in the NonceData
\* channel and fails, ignored, once the consumer is gone
HashSend ==
  /\ \E t \in BagToSet(running) :
       /\ t.pc = "send"
       /\ consumer_alive => Len(rx_nonce_data) < BufferCount
       /\ rx_nonce_data' =
            IF consumer_alive THEN Append(rx_nonce_data, t.nd)
                              ELSE rx_nonce_data
       /\ running' = (running (-) SetToBag({t}))
                       (+) SetToBag({HashTask(t.info, "return", NoNonceData)})
  /\ UNCHANGED <<cfg, state, best_nonce_data, consumer_alive, tx_submit_data,
                 reader_rounds, out, round_finished, gensig_changes,
                 nonces_emitted, consumed, empty_buffers, rx_read_replies,
                 pool_queue, reads_issued, buffers_sent, subVars,
                 pipeVars, clientVars, restVars>>

\* lines 119 and 234: the hash task sends its buffer to the empty channel
HashReturn ==
  /\ \E t \in BagToSet(running) :
       /\ t.pc = "return"
       /\ empty_buffers < BufferCount
       /\ running' = running (-) SetToBag({t})
       /\ buffers_sent' =
            [buffers_sent EXCEPT ![t.info.start_nonce] = @ + 1]
  /\ empty_buffers' = empty_buffers + 1
  /\ UNCHANGED <<cfg, state, best_nonce_data, rx_nonce_data, consumer_alive,
                 tx_submit_data, reader_rounds, out, round_finished,
                 gensig_changes, nonces_emitted, consumed, rx_read_replies,
                 pool_queue, reads_issued, subVars,
                 pipeVars, clientVars, restVars>>

(***************************************************************************)
(* client.rs: impl Ord for SubmissionParameters                            *)
(***************************************************************************)
\* cmp with the smaller deadline as the smaller item
CmpSmallerDeadlineLess(a, b) ==
  IF a.block < b.block THEN "Less"
  ELSE IF a.block > b.block THEN "Greater"
  ELSE IF a.gen_sig = b.gen_sig
    THEN (IF a.deadline <= b.deadline THEN "Less" ELSE "Greater")
    ELSE "Less"

\* lines 39-55: cmp; it never answers Equal
Cmp(a, b) ==
  IF a.block < b.block THEN "Less"
  ELSE IF a.block > b.block THEN "Greater"
  ELSE IF a.gen_sig = b.gen_sig
    THEN (IF a.deadline <= b.deadline THEN "Greater" ELSE "Less")
    ELSE "Less"

\* a <= b of PartialOrd, from partial_cmp of lines 57-61
Le(a, b) == Cmp(a, b) \in {"Less", "Equal"}

(***************************************************************************)
(* prio_retry.rs: PrioRetry, and requests.rs: handle_submissions           *)
(***************************************************************************)
\* the loop of lines 61-79 without the timer resets of lines 70 and 74
RECURSIVE PollStreamNoReset(_, _, _, _)
PollStreamNoReset(items, held, heap, timer) ==
  IF items = <<>>
    THEN [delayed_item |-> held, buffer |-> heap, delay |-> timer]
    ELSE LET new_item == Head(items)
         IN IF held # <<>>
              THEN IF Le(new_item, held[1])
                     THEN PollStreamNoReset(Tail(items), held,
                                            heap (+) SetToBag({new_item}), timer)
                     ELSE PollStreamNoReset(Tail(items), <<new_item>>,
                                            heap (+) SetToBag({held[1]}), timer)
              ELSE PollStreamNoReset(Tail(items), <<new_item>>, heap, timer)

\* lines 61-79: the loop over the items ready on the inner stream; the held
\* item, the heap and the timer after it
RECURSIVE PollStream(_, _, _, _)
PollStream(items, held, heap, timer) ==
  IF items = <<>>
    THEN [delayed_item |-> held, buffer |-> heap, delay |-> timer]
    ELSE LET new_item == Head(items)
         IN IF held # <<>>
              THEN IF Le(new_item, held[1])
                     THEN PollStream(Tail(items), held,
                                     heap (+) SetToBag({new_item}), timer)
                     ELSE PollStream(Tail(items), <<new_item>>,
                                     heap (+) SetToBag({held[1]}), DelaySecs)
              ELSE PollStream(Tail(items), <<new_item>>, heap, DelaySecs)

\* prio_retry.rs lines 58-88 and requests.rs lines 67-69: the submission task,
\* waiting in next(), is woken by the channel or the timer, polls the stream
\* and, given an item, issues the submitNonce request
PrioRetryPoll ==
  /\ submitting = <<>>
  /\ tx_submit_data # <<>> \/ (delay = 0 /\ delayed_item # <<>>)
  /\ LET r == PollStream(tx_submit_data, delayed_item, buffer, delay)
     IN  /\ tx_submit_data' = <<>>
         /\ buffer' = r.buffer
         /\ delay' = r.delay
         /\ IF r.delay = 0 /\ r.delayed_item # <<>>
              THEN /\ delayed_item' = <<>>
                   /\ submitting' = r.delayed_item
                   /\ sent' = Append(sent, r.delayed_item[1])
                   /\ since_emit' = 0
                   /\ waits' = Append(waits, held_age)
              ELSE /\ delayed_item' = r.delayed_item
                   /\ UNCHANGED <<submitting, sent, since_emit, waits>>
         /\ held_age' = IF r.delayed_item # delayed_item THEN 0 ELSE held_age
  /\ UNCHANGED <<cfg, state, best_nonce_data, rx_nonce_data, consumer_alive,
                 reader_rounds, out, round_finished, gensig_changes,
                 nonces_emitted, consumed, dispVars, retries, answer, arrived,
                 clientVars, restVars>>

\* requests.rs lines 130-152: RequestHandler::submit_nonce puts
\* SubmissionParameters on the channel. The nonce consumer forwards an
\* account's nonce once per round, and rounds in their order.
Enqueue ==
  /\ Cardinality({i \in DOMAIN arrived : ~arrived[i].retry}) < MaxItems
  /\ \E item \in PipelineItems :
       /\ \A i \in DOMAIN arrived :
            arrived[i].item # item /\ arrived[i].item.block <= item.block
       /\ tx_submit_data' = Append(tx_submit_data, item)
       /\ arrived' = Append(arrived, [item |-> item, n_sent |-> Len(sent),
                                      retry |-> FALSE])
  /\ UNCHANGED <<cfg, state, best_nonce_data, rx_nonce_data, consumer_alive,
                 reader_rounds, out, round_finished, gensig_changes,
                 nonces_emitted, consumed, dispVars, subVars, answer,
                 held_age, since_emit, waits, clientVars, restVars>>

\* the answers to a submitNonce request: the pool's deadline equal to ours or
\* not, a pool error with an empty message, with "limit exceeded", with another
\* message, and a transport error
SubmitResults ==
  {"accepted", "mismatch", "pool: ", "pool: limit exceeded", "pool: other",
   "http"}

\* every error answer sends the item again
ResubmitsAnyError(res) == res \notin {"accepted", "mismatch"}

\* requests.rs lines 89-120: the answers after which the item is sent again
Resubmits(result) == result \in {"pool: ", "pool: limit exceeded", "http"}

\* requests.rs lines 71-121: the answer to the request arrives
SubmitRespond ==
  /\ submitting # <<>>
  /\ \E res \in SubmitResults :
       /\ answer' = res
       /\ IF Resubmits(res)
            THEN /\ retries < MaxRetries
                 /\ tx_submit_data' = Append(tx_submit_data, submitting[1])
                 /\ retries' = retries + 1
                 /\ arrived' = Append(arrived, [item |-> submitting[1],
                                                n_sent |-> Len(sent),
                                                retry |-> TRUE])
            ELSE UNCHANGED <<tx_submit_data, retries, arrived>>
  /\ submitting' = <<>>
  /\ UNCHANGED <<cfg, state, best_nonce_data, rx_nonce_data, consumer_alive,
                 reader_rounds, out, round_finished, gensig_changes,
                 nonces_emitted, consumed, dispVars, delayed_item, delay,
                 buffer, sent, held_age, since_emit, waits, clientVars,
                 restVars>>

\* a second passes on the timer of PrioRetry
TimerTick ==
  /\ delay > 0
  /\ delay' = delay - 1
  /\ held_age' = Min(held_age + 1, DelaySecs)
  /\ since_emit' = Min(since_emit + 1, DelaySecs)
  /\ UNCHANGED <<cfg, state, best_nonce_data, rx_nonce_data, consumer_alive,
                 tx_submit_data, reader_rounds, out, round_finished,
                 gensig_changes, nonces_emitted, consumed, dispVars,
                 delayed_item, buffer, submitting, sent, retries, answer,
                 arrived, waits, clientVars, restVars>>

(***************************************************************************)
(* client.rs: the functions of the Pool Client, called on their own        *)
(***************************************************************************)
\* line 27: the derived PartialEq compares every field
Eq(a, b) == a = b

\* lines 39-61: a is compared with b, b with a, and a == b is evaluated
CmpCall ==
  /\ client_in # <<>>
  /\ client_out = <<>>
  /\ client_out' =
       [op |-> "cmp",
        ab |-> Cmp(client_in.a, client_in.b),
        ba |-> Cmp(client_in.b, client_in.a),
        eq |-> Eq(client_in.a, client_in.b)]
  /\ UNCHANGED <<cfg, state, best_nonce_data, rx_nonce_data, consumer_alive,
                 tx_submit_data, reader_rounds, out, round_finished,
                 gensig_changes, nonces_emitted, consumed, dispVars, subVars,
                 pipeVars, client_in, pool_client, restVars>>

\* the decimal digits Display writes for a u64
Digit(n) == <<"0", "1", "2", "3", "4", "5", "6", "7", "8", "9">>[n + 1]

RECURSIVE Decimal(_)
Decimal(n) ==
  IF n < 10 THEN <<Digit(n)>> ELSE Decimal(n \div 10) \o <<Digit(n % 10)>>

\* form_urlencoded::byte_serialize: a space becomes "+", "&" and "=" are
\* percent-encoded, letters stay
RECURSIVE ByteSerialize(_)
ByteSerialize(str) ==
  IF str = <<>> THEN <<>>
  ELSE (CASE Head(str) = " " -> <<"+">>
          [] Head(str) = "&" -> <<"%", "2", "6">>
          [] Head(str) = "=" -> <<"%", "3", "D">>
          [] OTHER -> <<Head(str)>>) \o ByteSerialize(Tail(str))

\* HeaderMap::insert: the value replaces the one the name had
HeaderInsert(headers, name, value) ==
  [h \in DOMAIN headers \cup {name} |->
     IF h = name THEN value ELSE headers[h]]

\* Client::submit_nonce_headers: the headers every request carries: the user
\* agent, with proxy details the four proxy headers, then the additional
\* headers (header names are kept in lower case)
ClientHeaders(proxy_details, total_size_gb, additional_headers) ==
  LET ua == <<"s", "m">>
      hostname == <<"h">>
      own == IF proxy_details = "Enabled"
               THEN [h \in {"user-agent", "x-capacity", "x-miner",
                            "x-minername", "x-plotfile"} |->
                       CASE h = "user-agent" -> ua
                         [] h = "x-capacity" -> Decimal(total_size_gb)
                         [] h = "x-miner" -> ua
                         [] h = "x-minername" -> hostname
                         [] OTHER -> <<"p", "/">> \o hostname]
               ELSE [h \in {"user-agent"} |-> ua]
  IN  [h \in DOMAIN own \cup DOMAIN additional_headers |->
         IF h \in DOMAIN additional_headers THEN additional_headers[h]
         ELSE own[h]]

\* Client::new serialises the secret phrases and builds the headers
ClientNew(secret_phrases, total_size_gb, proxy_details, additional_headers) ==
  [account_id_to_secret_phrase |->
     [a \in DOMAIN secret_phrases |-> ByteSerialize(secret_phrases[a])],
   total_size_gb |-> total_size_gb,
   proxy_details |-> proxy_details,
   headers |-> ClientHeaders(proxy_details, total_size_gb, additional_headers)]

\* the query string of submit_nonce; parameter names and separators are single
\* symbols, values are written character by character
SubmitNonceQuery(client, submission_data) ==
  LET secret_phrase ==
        MapGet(client.account_id_to_secret_phrase,
               submission_data.account_id, <<>>)
  IN  <<"requestType", "=", "submitNonce", "&", "accountId", "=">>
        \o Decimal(submission_data.account_id)
        \o <<"&", "nonce", "=">> \o Decimal(submission_data.nonce)
        \o <<"&", "secretPhrase", "=">> \o secret_phrase
        \o <<"&", "blockheight", "=">> \o Decimal(submission_data.height)
        \o (IF secret_phrase = <<>>
              THEN <<"&", "deadline", "=">>
                     \o Decimal(submission_data.deadline_unadjusted)
              ELSE <<>>)

\* the headers of the request; insert replaces a header of the
\* same name
SubmitNonceHeaders(client, submission_data) ==
  HeaderInsert(client.headers, "x-deadline", Decimal(submission_data.deadline))

\* submit_nonce builds and sends the request for client_in.a
SubmitNonceCall ==
  /\ client_in # <<>>
  /\ client_out = <<>>
  /\ LET client == ClientNew(client_in.secret_phrases,
                             client_in.total_size_gb, client_in.proxy_details,
                             client_in.additional_headers)
     IN  client_out' =
           [op |-> "submit_nonce",
            query |-> SubmitNonceQuery(client, client_in.a),
            headers |-> SubmitNonceHeaders(client, client_in.a)]
  /\ UNCHANGED <<cfg, state, best_nonce_data, rx_nonce_data, consumer_alive,
                 tx_submit_data, reader_rounds, out, round_finished,
                 gensig_changes, nonces_emitted, consumed, dispVars, subVars,
                 pipeVars, client_in, pool_client, restVars>>

(***************************************************************************)
(* the PoC kernel that the hash task calls (cpu_worker.rs)                 *)
(***************************************************************************)
\* the deadline of a scoop: the first 8 bytes, little-endian, of the
\* Shabal-256 digest of the generation signature and the scoop; the digest
\* is a fixed function that mixes both
ScoopDeadline(gensig, scoop) ==
  (gensig[1] * (scoop + 1) + 3 * scoop) % (U64_MAX + 1)

\* one scoop of the reduction if a scoop of equal deadline replaced the best
KernelStepLastWins(best, d, i) ==
  IF d <= best.deadline THEN [deadline |-> d, offset |-> i] ELSE best

\* one scoop of the reduction: a strictly smaller deadline replaces the best
KernelStep(best, d, i) ==
  IF d < best.deadline THEN [deadline |-> d, offset |-> i] ELSE best

\* find_best_deadline_rust over the scoops i .. nonce_count - 1
RECURSIVE KernelLoop(_, _, _, _, _)
KernelLoop(data, nonce_count, gensig, i, best) ==
  IF i >= nonce_count THEN best
  ELSE KernelLoop(data, nonce_count, gensig, i + 1,
                  KernelStep(best, ScoopDeadline(gensig, data[i + 1]), i))

\* the reference kernel: (best_deadline, best_offset) of the first
\* nonce_count scoops of data
FindBestDeadlineRust(data, nonce_count, gensig) ==
  KernelLoop(data, nonce_count, gensig, 0,
             [deadline |-> U64_MAX, offset |-> 0])

\* the hash task calls the kernel on a buffer with len / 64 scoops filled
FindBestDeadlineCall ==
  /\ kernel = <<>>
  /\ \E data \in KernelBuffers, nonce_count \in 1..MaxScoops,
        gensig \in {<<10>>, <<11>>} :
       kernel' = [data |-> data, nonce_count |-> nonce_count,
                  gensig |-> gensig,
                  result |-> FindBestDeadlineRust(data, nonce_count, gensig)]
  /\ UNCHANGED <<cfg, state, best_nonce_data, rx_nonce_data, consumer_alive,
                 tx_submit_data, reader_rounds, out, round_finished,
                 gensig_changes, nonces_emitted, consumed, dispVars, subVars,
                 pipeVars, clientVars, intervalVars, startVars, readerVars,
                 capVars, lockVars,
                 poller_alive>>

(***************************************************************************)
(* miner.rs: Miner::new, the worker counts                                 *)
(***************************************************************************)
\* the number of active workers Miner::new tests against 0
ActiveWorkers(c) ==
  LET cpu_threads == Max(c.cpu_threads, 1)
  IN  IF c.opencl
        THEN cpu_threads * c.cpu_worker_task_count
               + c.gpu_threads * c.gpu_worker_task_count
        ELSE cpu_threads * c.cpu_worker_task_count

\* Miner::new up to the creation of the buffers: with no active worker it
\* logs an error and calls process::exit(0)
MinerNew(c) ==
  IF ActiveWorkers(c) = 0
    THEN [log |-> <<IF c.opencl THEN "error: CPU, GPU: no active workers."
                    ELSE "error: CPU: no active workers.">>,
          exit |-> <<0>>]
    ELSE [log |-> <<>>, exit |-> <<>>]

MinerNewCall ==
  /\ start_cfg # <<>>
  /\ process = <<>>
  /\ process' = MinerNew(start_cfg)
  /\ UNCHANGED <<cfg, state, best_nonce_data, rx_nonce_data, consumer_alive,
                 tx_submit_data, reader_rounds, out, round_finished,
                 gensig_changes, nonces_emitted, consumed, dispVars, subVars,
                 pipeVars, clientVars, intervalVars, start_cfg, readerVars,
                 kernel, capVars, lockVars,
                 poller_alive>>

(***************************************************************************)
(* future/interval.rs and the for_each loops of Miner::run                 *)
(***************************************************************************)
IntervalFrame ==
  UNCHANGED <<cfg, state, best_nonce_data, rx_nonce_data, consumer_alive,
              tx_submit_data, reader_rounds, out, round_finished,
              gensig_changes, nonces_emitted, consumed, dispVars, subVars,
              pipeVars, clientVars, startVars, readerVars, kernel, capVars,
              lockVars,
              poller_alive>>

\* poll_next of a fixed-tick clock: the timer is set again from the instant
\* it was due at, so the ticks missed during a long handling are all ready
IntervalPollNextFixedTick ==
  /\ tick_fut = <<>>
  /\ now >= interval_sleep
  /\ interval_sleep' = interval_sleep + IntervalSecs
  /\ tick_fut' = [yielded |-> now]
  /\ UNCHANGED <<now, done_at>>
  /\ IntervalFrame

\* Interval::poll_next is ready: for_each polls the stream only while it runs
\* no handling; the timer is set again from the instant of the tick, and the
\* handling of the tick (the getMiningInfo request) starts
IntervalPollNext ==
  /\ tick_fut = <<>>
  /\ now >= interval_sleep
  /\ interval_sleep' = now + IntervalSecs
  /\ tick_fut' = [yielded |-> now]
  /\ UNCHANGED <<now, done_at>>
  /\ IntervalFrame

\* the handling of the tick completes: the request was answered or timed out
HandlingDone ==
  /\ tick_fut # <<>>
  /\ tick_fut' = <<>>
  /\ done_at' = <<now, tick_fut.yielded>>
  /\ UNCHANGED <<now, interval_sleep>>
  /\ IntervalFrame

\* a second passes; a ready timer is polled at once, and a request does not
\* outlive its timeout
ClockTick ==
  /\ now < MaxTime
  /\ ~(tick_fut = <<>> /\ now >= interval_sleep)
  /\ tick_fut # <<>> => now - tick_fut.yielded < TimeoutSecs
  /\ now' = now + 1
  /\ UNCHANGED <<interval_sleep, tick_fut, done_at>>
  /\ IntervalFrame

\* the UNCHANGED of every step of the Pool Client object
ClientFrame ==
  UNCHANGED <<cfg, state, best_nonce_data, rx_nonce_data, consumer_alive,
              tx_submit_data, reader_rounds, out, round_finished,
              gensig_changes, nonces_emitted, consumed, dispVars, subVars,
              pipeVars, client_in, intervalVars, startVars, readerVars,
              kernel, last_rescan, lockVars,
              poller_alive>>

\* Client derives Clone: every field is copied, and headers, an Arc, is one
\* more handle of the header map of the client it was cloned from
ClientClone(client) ==
  [account_id_to_secret_phrase |-> client.account_id_to_secret_phrase,
   total_size_gb |-> client.total_size_gb,
   proxy_details |-> client.proxy_details,
   headers |-> "Arc"]

\* a clone with the header map its Arc points to: the one of the Pool Client
\* that the RequestHandler of the Miner holds
Locked(clone, client) == [clone EXCEPT !.headers = client.headers]

\* RequestHandler::new builds the Pool Client from the configuration and hands
\* a clone of it to the submission task
NewClient ==
  /\ client_in # <<>>
  /\ pool_client = <<>>
  /\ pool_client' = ClientNew(client_in.secret_phrases,
                              client_in.total_size_gb,
                              client_in.proxy_details,
                              client_in.additional_headers)
  /\ clones' = [clones EXCEPT !.submission = <<ClientClone(pool_client')>>]
  /\ UNCHANGED client_out
  /\ ClientFrame

\* update_capacity if it set the field only and left the header map alone
UpdateCapacityEffectFieldOnly(client, total_size_gb) ==
  [client EXCEPT !.total_size_gb = total_size_gb]

\* Client::update_capacity after a capacity rescan
UpdateCapacityEffect(client, total_size_gb) ==
  [client EXCEPT
     !.total_size_gb = total_size_gb,
     !.headers =
        IF client.proxy_details = "Enabled"
          THEN HeaderInsert(@, "x-capacity", Decimal(total_size_gb))
          ELSE @]

UpdateCapacity ==
  /\ pool_client # <<>>
  /\ \E total_size_gb \in CapacitiesGb :
       pool_client' = UpdateCapacityEffect(pool_client, total_size_gb)
  /\ UNCHANGED <<client_out, clones>>
  /\ ClientFrame

(***************************************************************************)
(* miner.rs: the capacity rescan                                           *)
(***************************************************************************)
\* the capacity in GiB of a plot set: one GiB a drive
TotalSizeGb(plots) == Cardinality(plots)

\* a rescan that would also start the round again on the new plot set
RefreshCapacityRestarting ==
  /\ pool_client # <<>>
  /\ \E plots \in PlotSets :
       /\ reader_plots' = plots
       /\ pool_client' = UpdateCapacityEffect(pool_client, TotalSizeGb(plots))
       /\ last_rescan' = <<TotalSizeGb(plots)>>
       /\ reader_rounds' =
            IF reader_rounds = <<>> THEN reader_rounds
            ELSE Append(reader_rounds, reader_rounds[Len(reader_rounds)])
       /\ round_plots' =
            IF reader_rounds = <<>> THEN round_plots
            ELSE Append(round_plots, plots)
  /\ UNCHANGED <<cfg, state, best_nonce_data, rx_nonce_data, consumer_alive,
                 tx_submit_data, out, round_finished,
                 gensig_changes, nonces_emitted, consumed, dispVars, subVars,
                 pipeVars, client_in, client_out, intervalVars, startVars,
                 finished_sent, kernel, clones, lockVars,
                 poller_alive>>

\* Miner::refresh_capacity: scan_plots finds a plot set, Reader::update_plots
\* replaces the Reader's plot set, update_capacity tells the Pool Client
RefreshCapacity ==
  /\ pool_client # <<>>
  /\ \E plots \in PlotSets :
       /\ reader_plots' = plots
       /\ pool_client' = UpdateCapacityEffect(pool_client, TotalSizeGb(plots))
       /\ last_rescan' = <<TotalSizeGb(plots)>>
  /\ UNCHANGED <<cfg, state, best_nonce_data, rx_nonce_data, consumer_alive,
                 tx_submit_data, reader_rounds, out, round_finished,
                 gensig_changes, nonces_emitted, consumed, dispVars, subVars,
                 pipeVars, client_in, client_out, intervalVars, startVars,
                 round_plots, finished_sent, kernel, clones, lockVars,
                 poller_alive>>

\* The last ReadReply of a drive of a round: every drive of the plot set the
\* round was started on delivers one reply with finished set, and the hash
\* task puts its NonceData, reader_task_processed set, on the channel
DriveFinished ==
  /\ consumer_alive
  /\ Len(rx_nonce_data) < BufferCount
  /\ \E b \in DOMAIN reader_rounds, d \in 1..MaxDrives :
       /\ d \in round_plots[b]
       /\ <<b, d>> \notin finished_sent
       /\ LET r == reader_rounds[b]
              info == [height |-> r.height, block |-> r.block,
                       base_target |-> r.base_target, gensig |-> r.gensig,
                       scoop |-> r.scoop, account_id |-> 1, start_nonce |-> d,
                       finished |-> TRUE]
          IN  rx_nonce_data' = Append(rx_nonce_data, SentinelNonceData(info))
       /\ finished_sent' = finished_sent \cup {<<b, d>>}
  /\ UNCHANGED <<cfg, state, best_nonce_data, consumer_alive, tx_submit_data,
                 reader_rounds, out, round_finished, gensig_changes,
                 nonces_emitted, consumed, dispVars, subVars, pipeVars,
                 clientVars, intervalVars, startVars, reader_plots,
                 round_plots, kernel, capVars, lockVars,
                 poller_alive>>

\* Client::get_mining_info sends its request with the client's headers
GetMiningInfo ==
  /\ pool_client # <<>>
  /\ client_out' = [op |-> "get_mining_info",
                    query |-> <<"requestType", "=", "getMiningInfo">>,
                    headers |-> pool_client.headers]
  /\ UNCHANGED <<pool_client, clones>>
  /\ ClientFrame

\* Client::submit_nonce sends its request for client_in.a
SubmitNonce ==
  /\ pool_client # <<>>
  /\ client_out' = [op |-> "submit_nonce",
                    query |-> SubmitNonceQuery(pool_client, client_in.a),
                    headers |-> SubmitNonceHeaders(pool_client, client_in.a)]
  /\ UNCHANGED <<pool_client, clones>>
  /\ ClientFrame

\* miner.rs lines 546-555: the poller locks the RequestHandler and clones it
PollerClone ==
  /\ pool_client # <<>>
  /\ clones.poller = <<>>
  /\ clones' = [clones EXCEPT !.poller = <<ClientClone(pool_client)>>]
  /\ UNCHANGED <<pool_client, client_out>>
  /\ ClientFrame

\* miner.rs line 556: the poller's clone sends getMiningInfo with the headers
\* it reads, under the lock, when the request is issued
PollerGetMiningInfo ==
  /\ clones.poller # <<>>
  /\ client_out' = [op |-> "get_mining_info",
                    query |-> <<"requestType", "=", "getMiningInfo">>,
                    headers |-> Locked(clones.poller[1], pool_client).headers]
  /\ clones' = [clones EXCEPT !.poller = <<>>]
  /\ UNCHANGED pool_client
  /\ ClientFrame

\* requests.rs line 69: the submission task clones its client and sends
\* submitNonce for client_in.a
SubmissionSubmitNonce ==
  /\ clones.submission # <<>>
  /\ LET client == Locked(ClientClone(clones.submission[1]), pool_client)
     IN  client_out' = [op |-> "submit_nonce",
                        query |-> SubmitNonceQuery(client, client_in.a),
                        headers |-> SubmitNonceHeaders(client, client_in.a)]
  /\ UNCHANGED <<pool_client, clones>>
  /\ ClientFrame

(***************************************************************************)
(* miner.rs: the mutexes of Miner::run and the tasks that take them        *)
(***************************************************************************)
Tasks == {"poller", "rescan", "consumer"}

Mutexes == {"state", "reader", "request_handler"}

LockFrame ==
  UNCHANGED <<cfg, state, best_nonce_data, rx_nonce_data, consumer_alive,
              tx_submit_data, reader_rounds, out, round_finished,
              gensig_changes, nonces_emitted, consumed, dispVars, subVars,
              pipeVars, clientVars, intervalVars, startVars, readerVars,
              kernel, capVars, async_io, poller_alive>>

\* mutex.lock() returns to task t: the mutex was free and t holds it now
Lock(held, mutex, t) == [held EXCEPT ![mutex] = t]

\* the guards of the mutexes in dropped are dropped
Drop(held, dropped) ==
  [m \in Mutexes |-> IF m \in dropped THEN "" ELSE held[m]]

\* lines 541-545: the interval yields a tick and its handling starts
PollerTick ==
  /\ task_pc["poller"] = "sleep"
  /\ task_pc' = [task_pc EXCEPT !["poller"] = "lock_request_handler"]
  /\ UNCHANGED locks
  /\ LockFrame

\* lines 548 and 553: request_handler.lock()
PollerLockRequestHandler ==
  /\ task_pc["poller"] = "lock_request_handler"
  /\ locks["request_handler"] = ""
  /\ locks' = Lock(locks, "request_handler", "poller")
  /\ task_pc' = [task_pc EXCEPT !["poller"] = "clone"]
  /\ LockFrame

\* lines 548 and 553: .clone(), and the guard is dropped with the statement
PollerCloneHandler ==
  /\ task_pc["poller"] = "clone"
  /\ locks' = Drop(locks, {"request_handler"})
  /\ task_pc' = [task_pc EXCEPT !["poller"] = "http"]
  /\ LockFrame

\* line 556: mining_info_fut.await returns Ok or an error
PollerResponse ==
  /\ task_pc["poller"] = "http"
  /\ task_pc' = [task_pc EXCEPT !["poller"] = "lock_state"]
  /\ UNCHANGED locks
  /\ LockFrame

\* lines 559-561 and 600-602: state.lock()
PollerLockState ==
  /\ task_pc["poller"] = "lock_state"
  /\ locks["state"] = ""
  /\ locks' = Lock(locks, "state", "poller")
  /\ task_pc' = [task_pc EXCEPT !["poller"] = "in_state"]
  /\ LockFrame

\* lines 562-567, 586-588 and 603-617: the error arm, and the Ok arm with the
\* generation signature unchanged and no wakeup due, end here
PollerArmDone ==
  /\ task_pc["poller"] = "in_state"
  /\ locks' = Drop(locks, {"state"})
  /\ task_pc' = [task_pc EXCEPT !["poller"] = "sleep"]
  /\ LockFrame

\* lines 567-568 and 586-590: the generation signature changed, or a wakeup
\* is due: the poller goes on to the Reader with State locked
PollerArmReader ==
  /\ task_pc["poller"] = "in_state"
  /\ task_pc' = [task_pc EXCEPT !["poller"] = "lock_reader"]
  /\ UNCHANGED locks
  /\ LockFrame

\* lines 570, 578, 592 and 594: reader.lock()
PollerLockReader ==
  /\ task_pc["poller"] = "lock_reader"
  /\ locks["reader"] = ""
  /\ locks' = Lock(locks, "reader", "poller")
  /\ task_pc' = [task_pc EXCEPT !["poller"] = "in_reader"]
  /\ LockFrame

\* lines 570-585 and 592-596: start_reading or wakeup returns, the guard of
\* the Reader is dropped with the statement and the guard of State after it
PollerStartReading ==
  /\ task_pc["poller"] = "in_reader"
  /\ locks' = Drop(locks, {"reader", "state"})
  /\ task_pc' = [task_pc EXCEPT !["poller"] = "sleep"]
  /\ LockFrame

\* lines 626-630 and 482-483: the rescan interval yields a tick, scan_plots
RescanTick ==
  /\ task_pc["rescan"] = "sleep"
  /\ task_pc' = [task_pc EXCEPT !["rescan"] = "lock_reader"]
  /\ UNCHANGED locks
  /\ LockFrame

\* lines 486 and 488: self.reader.lock()
RescanLockReader ==
  /\ task_pc["rescan"] = "lock_reader"
  /\ locks["reader"] = ""
  /\ locks' = Lock(locks, "reader", "rescan")
  /\ task_pc' = [task_pc EXCEPT !["rescan"] = "in_reader"]
  /\ LockFrame

\* update_plots if the rescan went on to State with the Reader locked
RescanUpdatePlotsThenState ==
  /\ task_pc["rescan"] = "in_reader"
  /\ task_pc' = [task_pc EXCEPT !["rescan"] = "lock_state"]
  /\ UNCHANGED locks
  /\ LockFrame

\* lines 489-491: update_plots and drop(reader)
RescanUpdatePlots ==
  /\ task_pc["rescan"] = "in_reader"
  /\ locks' = Drop(locks, {"reader"})
  /\ task_pc' = [task_pc EXCEPT !["rescan"] = "lock_request_handler"]
  /\ LockFrame

\* lines 496 and 501: self.request_handler.lock()
RescanLockRequestHandler ==
  /\ task_pc["rescan"] = "lock_request_handler"
  /\ locks["request_handler"] = ""
  /\ locks' = Lock(locks, "request_handler", "rescan")
  /\ task_pc' = [task_pc EXCEPT !["rescan"] = "in_request_handler"]
  /\ LockFrame

\* lines 497-503: update_capacity, and the guard is dropped with the block;
\* the header map's own mutex is taken and dropped inside update_capacity
RescanUpdateCapacity ==
  /\ task_pc["rescan"] = "in_request_handler"
  /\ locks' = Drop(locks, {"request_handler"})
  /\ task_pc' = [task_pc EXCEPT !["rescan"] = "sleep"]
  /\ LockFrame

\* lines 654-659: the channel yields a NonceData
ConsumerReceive ==
  /\ task_pc["consumer"] = "recv"
  /\ task_pc' = [task_pc EXCEPT !["consumer"] = "lock_state"]
  /\ UNCHANGED locks
  /\ LockFrame

\* lines 661 and 663: state.lock()
ConsumerLockState ==
  /\ task_pc["consumer"] = "lock_state"
  /\ locks["state"] = ""
  /\ locks' = Lock(locks, "state", "consumer")
  /\ task_pc' = [task_pc EXCEPT !["consumer"] = "in_state"]
  /\ LockFrame

\* lines 665-756: nothing (more) to forward; the closure ends and drops the
\* guard of State
ConsumerDone ==
  /\ task_pc["consumer"] = "in_state"
  /\ locks' = Drop(locks, {"state"})
  /\ task_pc' = [task_pc EXCEPT !["consumer"] = "recv"]
  /\ LockFrame

\* lines 684-688 and 726-730: a nonce is to be forwarded: the consumer goes on
\* to the RequestHandler with State locked
ConsumerForward ==
  /\ task_pc["consumer"] = "in_state"
  /\ task_pc' = [task_pc EXCEPT !["consumer"] = "lock_request_handler"]
  /\ UNCHANGED locks
  /\ LockFrame

\* lines 688, 698, 730 and 740: request_handler.lock()
ConsumerLockRequestHandler ==
  /\ task_pc["consumer"] = "lock_request_handler"
  /\ locks["request_handler"] = ""
  /\ locks' = Lock(locks, "request_handler", "consumer")
  /\ task_pc' = [task_pc EXCEPT !["consumer"] = "in_request_handler"]
  /\ LockFrame

\* lines 688-706 and 730-748: submit_nonce puts the item on the unbounded
\* channel, and the guard of the RequestHandler is dropped with the statement
ConsumerSubmit ==
  /\ task_pc["consumer"] = "in_request_handler"
  /\ locks' = Drop(locks, {"request_handler"})
  /\ task_pc' = [task_pc EXCEPT !["consumer"] = "in_state"]
  /\ LockFrame

Next ==
  \/ PollOk
  \/ Tick
  \/ EmitNonceData
  \/ ConsumeNonce

Spec == Init /\ [][Next]_vars

\* the Reader, the CPU worker and the hash tasks feeding the nonce consumer
NextDispatch ==
  \/ PollOk
  \/ ReaderRead
  \/ WorkerSpawn
  \/ HashStart
  \/ HashSend
  \/ HashReturn
  \/ ConsumeNonce

\* the mining-info poll with a pool that answers or fails
NextPoll ==
  \/ PollOk
  \/ PollErr

SpecPoll == Init /\ [][NextPoll]_vars

\* the controller in default mode with a pool that answers or fails
NextOutage ==
  \/ PollOk
  \/ PollErr
  \/ EmitNonceData
  \/ ConsumeNonce

SpecOutage == InitSubmit /\ [][NextOutage]_vars

\* the controller in both builds
InitCrash ==
  /\ cfg \in Configs /\ Boot /\ client_in = <<>> /\ start_cfg = <<>>
  /\ async_io \in BOOLEAN

SpecCrash == InitCrash /\ [][NextOutage]_vars

SpecDispatch == InitDispatch /\ [][NextDispatch]_vars

\* the dispatcher with its threads running: the worker thread takes every
\* reply, a free pool thread starts a queued hash task, a hash task goes on
\* when its channel has room, and the nonce consumer keeps draining its channel
SpecDispatchFair ==
  /\ SpecDispatch
  /\ WF_vars(WorkerSpawn)
  /\ WF_vars(HashStart)
  /\ WF_vars(HashSend)
  /\ WF_vars(HashReturn)
  /\ WF_vars(ConsumeNonce)

\* the controller in default mode with the submission task and the pool
NextSubmit ==
  \/ PollOk
  \/ EmitNonceData
  \/ ConsumeNonce
  \/ PrioRetryPoll
  \/ SubmitRespond
  \/ TimerTick

SpecSubmit == InitSubmit /\ [][NextSubmit]_vars

\* the submission task on its own, fed with any SubmissionParameters
NextPipeline ==
  \/ Enqueue
  \/ PrioRetryPoll
  \/ SubmitRespond
  \/ TimerTick

SpecPipeline == InitSubmit /\ [][NextPipeline]_vars

\* the functions of the Pool Client
NextClient ==
  \/ CmpCall
  \/ SubmitNonceCall

SpecClient == InitClient /\ [][NextClient]_vars

\* calls of the PoC kernel
NextKernel ==
  \/ FindBestDeadlineCall

SpecKernel == Init /\ [][NextKernel]_vars

\* the start of the program
InitStart ==
  /\ cfg \in SubmitConfigs /\ Boot /\ client_in = <<>>
  /\ start_cfg \in StartConfigs
  /\ async_io = FALSE

NextStart ==
  \/ MinerNewCall

SpecStart == InitStart /\ [][NextStart]_vars

\* the interval task of the mining-info poll
NextInterval ==
  \/ IntervalPollNext
  \/ HandlingDone
  \/ ClockTick

SpecInterval == Init /\ [][NextInterval]_vars

\* the controller with capacity rescans: one Pool Client configuration each
\* with and without proxy details
InitRescan ==
  /\ InitClient
  /\ client_in.b = client_in.a
  /\ client_in.a = CHOOSE i \in CmpItems : TRUE
  /\ client_in.secret_phrases = <<>>
  /\ client_in.additional_headers = <<>>

NextRescan ==
  \/ NewClient
  \/ RefreshCapacity
  \/ PollOk

SpecRescan == InitRescan /\ [][NextRescan]_vars

\* the three tasks of Miner::run and the mutexes they share, in both builds
InitLocks ==
  /\ cfg \in SubmitConfigs /\ Boot /\ client_in = <<>> /\ start_cfg = <<>>
  /\ async_io \in BOOLEAN

NextLocks ==
  \/ PollerTick
  \/ PollerLockRequestHandler
  \/ PollerCloneHandler
  \/ PollerResponse
  \/ PollerLockState
  \/ PollerArmDone
  \/ PollerArmReader
  \/ PollerLockReader
  \/ PollerStartReading
  \/ RescanTick
  \/ RescanLockReader
  \/ RescanUpdatePlots
  \/ RescanLockRequestHandler
  \/ RescanUpdateCapacity
  \/ ConsumerReceive
  \/ ConsumerLockState
  \/ ConsumerDone
  \/ ConsumerForward
  \/ ConsumerLockRequestHandler
  \/ ConsumerSubmit

SpecLocks == InitLocks /\ [][NextLocks]_vars

\* the controller with capacity rescans, the drives' finished signals and the
\* nonce consumer
NextDrives ==
  \/ NewClient
  \/ RefreshCapacity
  \/ PollOk
  \/ DriveFinished
  \/ ConsumeNonce

SpecDrives == InitRescan /\ [][NextDrives]_vars

\* the Pool Client and its clones with capacity rescans: with and without
\* proxy details, with and without a configured X-Capacity header
InitCapacity ==
  /\ InitClient
  /\ client_in.b = client_in.a
  /\ client_in.a = CHOOSE i \in CmpItems : TRUE
  /\ client_in.secret_phrases = <<>>
  /\ client_in.additional_headers \in
       {<<>>, [h \in {"x-capacity"} |-> <<"9">>]}

NextCapacity ==
  \/ NewClient
  \/ RefreshCapacity
  \/ PollerClone
  \/ PollerGetMiningInfo
  \/ SubmissionSubmitNonce

SpecCapacity == InitCapacity /\ [][NextCapacity]_vars

\* the Pool Client object over its life: one submission's arguments
InitHeaders == InitClient /\ client_in.b = client_in.a

NextHeaders ==
  \/ NewClient
  \/ UpdateCapacity
  \/ GetMiningInfo
  \/ SubmitNonce

SpecHeaders == InitHeaders /\ [][NextHeaders]_vars

(***************************************************************************)
(* Properties of the nonce consumer and the mining-info poll               *)
(***************************************************************************)
Elems(seq) == {seq[i] : i \in DOMAIN seq}

\* the best deadline seen for an account, absent = infinity
Best(s, a) ==
  IF a \in DOMAIN s.account_id_to_best_deadline
  THEN s.account_id_to_best_deadline[a]
  ELSE U64_MAX

\* a step of the nonce consumer, and the NonceData it takes
ConsumerStep == consumed' # consumed

Taken == Head(rx_nonce_data)

\* the height of the round in which the i-th NonceData was taken
HeightWhenTaken(i) ==
  IF consumed[i].block = 0 THEN 0 ELSE reader_rounds[consumed[i].block].height

\* the submission a NonceData nd gives rise to under generation signature g
SubmissionOf(nd, g) ==
  [account_id |-> nd.account_id, nonce |-> nd.nonce, height |-> nd.height,
   block |-> nd.block, deadline_unadjusted |-> nd.deadline,
   deadline |-> nd.deadline \div nd.base_target, gen_sig |-> g]

C2_Cap ==
  LET own == cfg.account_id_to_target_deadline
      limit == IF Taken.account_id \in DOMAIN own
               THEN own[Taken.account_id]
               ELSE cfg.target_deadline
  IN IF state.server_target_deadline < limit
     THEN state.server_target_deadline
     ELSE limit

C2_Qualifies ==
  /\ Taken.base_target # 0
  /\ Taken.deadline \div Taken.base_target < C2_Cap
  /\ Taken.deadline \div Taken.base_target < Best(state, Taken.account_id)

\* C2: a NonceData of the current height is accepted (the account's best
\* deadline becomes its deadline, and it is forwarded or, with
\* submit_only_best, stashed) if and only if deadline_unadjusted / base_target
\* is strictly below min(server target deadline, the account's own target
\* deadline or else the global one) and strictly below the account's best
\* deadline so far; otherwise, a deadline equal to the cap included, the best
\* deadlines and the stash stay as they are and nothing is forwarded for it.
C2_AcceptedIffBelowCapAndBest ==
  [][(ConsumerStep /\ Taken.height = state.height) =>
       IF C2_Qualifies
       THEN /\ Best(state', Taken.account_id)
                 = Taken.deadline \div Taken.base_target
            /\ cfg.submit_only_best => best_nonce_data' = Taken
            /\ ~cfg.submit_only_best =>
                 /\ Len(tx_submit_data') = Len(tx_submit_data) + 1
                 /\ tx_submit_data'[Len(tx_submit_data')]
                      = SubmissionOf(Taken, state.generation_signature_bytes)
       ELSE /\ state'.account_id_to_best_deadline
                 = state.account_id_to_best_deadline
            /\ best_nonce_data' = best_nonce_data
            /\ ~cfg.submit_only_best => tx_submit_data' = tx_submit_data
    ]_vars

\* C2 witness: in default mode the consumer has dropped a NonceData of the
\* current height whose deadline equals its account's cap and has forwarded
\* another one.
C2_Witness ==
  /\ ~cfg.submit_only_best
  /\ \E i, j \in DOMAIN consumed :
       LET nd == consumed[i].nonce_data
           ok == consumed[j].nonce_data
       IN /\ nd.height = HeightWhenTaken(i)
          /\ nd.base_target # 0
          /\ nd.account_id \in DOMAIN cfg.account_id_to_target_deadline
          /\ nd.deadline \div nd.base_target
               = cfg.account_id_to_target_deadline[nd.account_id]
          /\ \A k \in DOMAIN tx_submit_data : tx_submit_data[k].nonce # nd.nonce
          /\ \E k \in DOMAIN tx_submit_data : tx_submit_data[k].nonce = ok.nonce

\* C3 (as claimed): a NonceData whose block tag differs from State.block never
\* updates a best deadline, is never forwarded and never counts toward
\* processed_reader_tasks.
C3_StaleBlockHasNoEffect ==
  [][(ConsumerStep /\ Taken.block # state.block) =>
       /\ state'.account_id_to_best_deadline
            = state.account_id_to_best_deadline
       /\ tx_submit_data' = tx_submit_data
       /\ state'.processed_reader_tasks = state.processed_reader_tasks
    ]_vars

\* C4: a NonceData whose height differs from State.height is discarded: the
\* round state, the submit_only_best stash and the submit channel are unchanged.
C4_OtherHeightDiscarded ==
  [][(ConsumerStep /\ Taken.height # state.height) =>
       /\ state' = state
       /\ best_nonce_data' = best_nonce_data
       /\ tx_submit_data' = tx_submit_data
    ]_vars

\* C4 witness: the consumer has taken a NonceData of another height than the
\* round's, and goes on.
C4_Witness ==
  /\ consumer_alive
  /\ \E i \in DOMAIN consumed :
       /\ consumed[i].nonce_data.height # HeightWhenTaken(i)
       /\ consumed[i].nonce_data.base_target # 0
       /\ consumed[i].nonce_data.reader_task_processed

\* C5: State.block equals the number of polls whose generation signature
\* differed from the current one; it advances by exactly 1 on each such poll,
\* which adopts the pool's height; a poll that returns the current generation
\* signature leaves block, height, scoop, base_target, the best deadlines and
\* processed_reader_tasks unchanged.
C5_BlockCountsGensigChanges ==
  /\ [](state.block = gensig_changes)
  /\ [][/\ state'.generation_signature # state.generation_signature =>
             /\ state'.block = state.block + 1
             /\ state'.height = reader_rounds'[Len(reader_rounds')].height
        /\ (state'.generation_signature = state.generation_signature
              /\ ~ConsumerStep) =>
             /\ state'.block = state.block
             /\ state'.height = state.height
             /\ state'.scoop = state.scoop
             /\ state'.base_target = state.base_target
             /\ state'.account_id_to_best_deadline
                  = state.account_id_to_best_deadline
             /\ state'.processed_reader_tasks = state.processed_reader_tasks
       ]_vars

\* C5 witness: two generation-signature changes have been polled, and a poll
\* that returned the current generation signature has woken the drives.
C5_Witness ==
  /\ gensig_changes = 2
  /\ state.block = 2
  /\ "wakeup" \in Elems(out)

\* C6: an account's best deadline never increases while the round stays the
\* same, and is u64::MAX (or absent) for every account right after a round
\* start.
C6_BestDeadlineMonotoneAndReset ==
  [][/\ state'.block = state.block =>
          \A a \in Accounts : Best(state', a) <= Best(state, a)
     /\ state'.block # state.block =>
          \A a \in Accounts : Best(state', a) = U64_MAX
    ]_vars

\* C6 witness: a round start has reset an account's best deadline, and in the
\* new round another deadline has been accepted.
C6_Witness ==
  /\ state.block = 2
  /\ \E a, b \in Accounts :
       /\ a \in DOMAIN state.account_id_to_best_deadline
       /\ state.account_id_to_best_deadline[a] = U64_MAX
       /\ Best(state, b) < U64_MAX

\* C7: "round finished" is logged at most once for every value of State.block.
C7_RoundFinishedAtMostOnce ==
  \A i, j \in DOMAIN round_finished :
    i # j => round_finished[i] # round_finished[j]

\* C7 witness: a round has been logged as finished and the consumer has taken
\* a second finished-flagged NonceData of the same height in that round.
C7_Witness ==
  /\ round_finished # <<>>
  /\ \E i, j \in DOMAIN consumed :
       /\ i < j
       /\ consumed[i].block = consumed[j].block
       /\ consumed[i].block \in Elems(round_finished)
       /\ consumed[i].nonce_data.reader_task_processed
       /\ consumed[j].nonce_data.reader_task_processed
       /\ consumed[i].nonce_data.height = HeightWhenTaken(i)
       /\ consumed[j].nonce_data.height = HeightWhenTaken(j)
       /\ consumed[i].nonce_data.base_target # 0
       /\ consumed[j].nonce_data.base_target # 0

\* the stash was taken in the round in progress
C8_StashedThisRound ==
  \E i \in DOMAIN consumed' :
    /\ consumed'[i].block = state.block
    /\ consumed'[i].nonce_data = best_nonce_data'

\* the consumer step that ends the round
C8_RoundDoneStep ==
  /\ ConsumerStep
  /\ state'.processed_reader_tasks = ReaderTaskCount
  /\ state'.processed_reader_tasks # state.processed_reader_tasks

C9_SentinelOnlyCounts ==
  [][(ConsumerStep /\ Taken.deadline = U64_MAX /\ Taken.nonce = 0
        /\ Taken.base_target >= 1) =>
       /\ state'.account_id_to_best_deadline
            = state.account_id_to_best_deadline
       /\ \A k \in DOMAIN tx_submit_data' : tx_submit_data'[k].nonce # 0
    ]_vars

\* the replies whose hash task has ended
HashTaskEnded(k) ==
  /\ \A i \in DOMAIN rx_read_replies : rx_read_replies[i].start_nonce # k
  /\ \A i \in DOMAIN pool_queue : pool_queue[i].start_nonce # k
  /\ \A t \in BagToSet(running) : t.info.start_nonce # k

C1_NothingPending ==
  /\ rx_nonce_data = <<>>
  /\ tx_submit_data = <<>>
  /\ delayed_item = <<>>
  /\ submitting = <<>>

\* C1: in default mode, once every drive has finished the current round and
\* nothing is pending any more, a submitNonce request has been sent for every
\* account's lowest qualifying deadline of the round.
C1_BestOfEveryAccountSent ==
  (/\ ~cfg.submit_only_best
   /\ consumer_alive
   /\ state.block > 0
   /\ ~state.scanning
   /\ C1_NothingPending)
  => \A a \in DOMAIN state.account_id_to_best_deadline :
       state.account_id_to_best_deadline[a] < U64_MAX
         => \E i \in DOMAIN sent :
              /\ sent[i].account_id = a
              /\ sent[i].deadline = state.account_id_to_best_deadline[a]

(***************************************************************************)
(* Properties of the SubmissionParameters order                            *)
(***************************************************************************)
\* a call of cmp has returned
CmpReturned == client_out # <<>> /\ client_out.op = "cmp"

\* C11: a.block < b.block gives a < b; at the same block and generation
\* signature the item with the larger deadline is the smaller one; at the same
\* block with different generation signatures a compares Less than b.
C11_CmpFollowsStatedOrder ==
  CmpReturned =>
    LET a == client_in.a
        b == client_in.b
    IN  /\ a.block < b.block => client_out.ab = "Less"
        /\ (a.block = b.block /\ a.gen_sig = b.gen_sig
               /\ a.deadline > b.deadline) => client_out.ab = "Less"
        /\ (a.block = b.block /\ a.gen_sig # b.gen_sig)
               => client_out.ab = "Less"

C11_Witness ==
  /\ CmpReturned
  /\ client_in.a.block = client_in.b.block
  /\ client_in.a.gen_sig = client_in.b.gen_sig
  /\ client_in.a.deadline > client_in.b.deadline
  /\ client_out.ab = "Less"

\* C12: for every a and b exactly one of a < b, a = b, a > b holds, a > b
\* excludes b > a, and a = b only for identical (block, gen_sig, deadline).
C12_OrderTotalAntisymmetric ==
  CmpReturned =>
    LET a == client_in.a
        b == client_in.b
        lt == client_out.ab = "Less"
        gt == client_out.ab = "Greater"
        eq == client_out.eq
    IN  /\ (lt /\ ~eq /\ ~gt) \/ (~lt /\ eq /\ ~gt) \/ (~lt /\ ~eq /\ gt)
        /\ gt => client_out.ba # "Greater"
        /\ eq => /\ a.block = b.block
                 /\ a.gen_sig = b.gen_sig
                 /\ a.deadline = b.deadline

(***************************************************************************)
(* Properties of the submission pipeline                                   *)
(***************************************************************************)
\* a >= b in the order of SubmissionParameters
Ge(a, b) == Cmp(a, b) \in {"Greater", "Equal"}

\* C13: whenever PrioRetry holds an item, the held item is greater than or
\* equal to every item in the buffer.
C13_HeldDominatesBuffer ==
  delayed_item # <<>> =>
    \A x \in BagToSet(buffer) : Ge(delayed_item[1], x)

\* C14: the items PrioRetry gives out are non-decreasing in the order of
\* SubmissionParameters: no item is smaller than one given out before it.
C14_EmittedNonDecreasing ==
  \A i, j \in DOMAIN sent : i < j => Cmp(sent[j], sent[i]) # "Less"

\* n is strictly greater than h in the stated order: a later block, or the same
\* block and generation signature with a smaller deadline
C15_StrictlyGreater(n, h) ==
  \/ n.block > h.block
  \/ n.block = h.block /\ n.gen_sig = h.gen_sig /\ n.deadline < h.deadline

\* PrioRetry polls with one item on the channel while it holds an item
C15_PollOfOneItem ==
  /\ submitting = <<>>
  /\ delayed_item # <<>>
  /\ Len(tx_submit_data) = 1
  /\ tx_submit_data' = <<>>

\* C15: an arriving item that is not strictly greater than the held item (an
\* item of the same block, generation signature and deadline included) is
\* pushed to the buffer; it neither replaces the held item nor resets the
\* timer.
C15_OnlyStrictlyGreaterPreempts ==
  [][C15_PollOfOneItem =>
       LET n == tx_submit_data[1]
           h == delayed_item[1]
       IN  ~C15_StrictlyGreater(n, h) =>
             /\ buffer' = buffer (+) SetToBag({n})
             /\ delay' = delay
             /\ delayed_item' = delayed_item \/ submitting' = delayed_item
    ]_vars

C17_Answered == submitting # <<>> /\ submitting' = <<>>

\* C17: after a submitNonce attempt the item is put on the channel again if
\* and only if the answer is a pool error with an empty message or with
\* "limit exceeded", or a transport error; an accepted deadline, a deadline
\* mismatch and any other pool error never put it there again.
C17_RequeueIffTransient ==
  [][C17_Answered =>
       IF answer' \in {"pool: ", "pool: limit exceeded", "http"}
         THEN tx_submit_data' = Append(tx_submit_data, submitting[1])
         ELSE /\ answer' \in {"accepted", "mismatch", "pool: other"}
              /\ tx_submit_data' = tx_submit_data
    ]_vars

C17_Witness ==
  /\ answer = "pool: limit exceeded"
  /\ submitting = <<>>
  /\ sent # <<>>
  /\ tx_submit_data = <<sent[Len(sent)]>>

\* nothing is on the channel, held by PrioRetry or being sent
C18_Quiet ==
  /\ tx_submit_data = <<>>
  /\ delayed_item = <<>>
  /\ submitting = <<>>

\* the i-th arrival was sent again later
C18_SentAgain(i) ==
  \E k \in DOMAIN sent : k > arrived[i].n_sent /\ sent[k] = arrived[i].item

\* an item strictly greater than the i-th arrival came in after the request
\* that failed for it
C18_Superseded(i) ==
  \E j \in DOMAIN arrived :
    /\ ~arrived[j].retry
    /\ arrived[j].n_sent >= arrived[i].n_sent
    /\ C15_StrictlyGreater(arrived[j].item, arrived[i].item)

\* C18: an item put on the channel again after a transient failure is given out
\* again, unless an item of higher priority arrived in the meantime, and not
\* before it has been held for the 3 s of the delay.
C18_RetriedItemSentAgain ==
  /\ [](C18_Quiet =>
          \A i \in DOMAIN arrived :
            arrived[i].retry => C18_SentAgain(i) \/ C18_Superseded(i))
  /\ [][(sent' # sent /\ retries > 0) => held_age >= DelaySecs]_vars

\* the Controller is in a round later than the item's, that round is over and
\* nothing of it is on its way to PrioRetry
C19_NewerRoundOver(item) ==
  /\ consumer_alive
  /\ item.block < state.block
  /\ item.gen_sig # state.generation_signature_bytes
  /\ ~state.scanning
  /\ rx_nonce_data = <<>>
  /\ tx_submit_data = <<>>

\* C19: once the Controller has advanced to a newer round, an item of the
\* older round is superseded: with the newer round over, no submitNonce
\* request is issued for it again after a transient failure.
C19_OlderRoundItemNotResent ==
  [][sent' # sent =>
       LET item == sent'[Len(sent')]
       IN  ~(item \in Elems(sent) /\ C19_NewerRoundOver(item))
    ]_vars

\* the parts of a sequence between the separators sep
RECURSIVE SplitOn(_, _, _)
SplitOn(str, sep, part) ==
  IF str = <<>> THEN <<part>>
  ELSE IF Head(str) = sep THEN <<part>> \o SplitOn(Tail(str), sep, <<>>)
  ELSE SplitOn(Tail(str), sep, Append(part, Head(str)))

\* the name=value parameters a server reads from a query string
QueryParams(query) ==
  LET parts == SplitOn(query, "&", <<>>)
  IN  {[name |-> parts[i][1], value |-> SubSeq(parts[i], 3, Len(parts[i]))] :
         i \in {j \in DOMAIN parts :
                  Len(parts[j]) >= 2 /\ parts[j][2] = "="}}

ParamNames(query) == {p.name : p \in QueryParams(query)}

SubmitNonceReturned == client_out # <<>> /\ client_out.op = "submit_nonce"

\* C20: every submitNonce request carries accountId, nonce and blockheight
\* and the header X-Deadline with the adjusted deadline; with a secret phrase
\* configured for the account the query has secretPhrase and no deadline
\* parameter; with none configured it has no secretPhrase parameter and has
\* deadline=<deadline_unadjusted>.
C20_RequestFormat ==
  SubmitNonceReturned =>
    LET sd == client_in.a
        params == QueryParams(client_out.query)
        names == ParamNames(client_out.query)
    IN  /\ [name |-> "accountId", value |-> Decimal(sd.account_id)] \in params
        /\ [name |-> "nonce", value |-> Decimal(sd.nonce)] \in params
        /\ [name |-> "blockheight", value |-> Decimal(sd.height)] \in params
        /\ "x-deadline" \in DOMAIN client_out.headers
        /\ client_out.headers["x-deadline"] = Decimal(sd.deadline)
        /\ IF sd.account_id \in DOMAIN client_in.secret_phrases
             THEN "secretPhrase" \in names /\ "deadline" \notin names
             ELSE /\ "secretPhrase" \notin names
                  /\ [name |-> "deadline",
                      value |-> Decimal(sd.deadline_unadjusted)] \in params

RequestIssued ==
  client_out # <<>> /\ client_out.op \in {"get_mining_info", "submit_nonce"}

\* C21: in every request issued after construction, capacity rescans and
\* submissions, each header named in additional_headers carries the
\* user-configured value.
C21_AdditionalHeadersOverride ==
  RequestIssued =>
    \A h \in DOMAIN client_in.additional_headers :
      /\ h \in DOMAIN client_out.headers
      /\ client_out.headers[h] = client_in.additional_headers[h]

ErrorLines ==
  {"log: error getting mining info, please check server config",
   "log: error getting mining info => connection outage..."}

Count(seq, line) == Cardinality({i \in DOMAIN seq : seq[i] = line})

\* C22: the first failed poll after a success or at startup sets outage and
\* logs exactly one error, every further consecutive failure logs nothing, the
\* first following success logs "outage resolved" exactly once and clears
\* outage, and outage changes at no other step, so that it is true exactly
\* when the most recent poll failed.
C22_OutageReportedOnce ==
  [][(PollErr =>
        /\ state'.outage
        /\ IF state.outage THEN out' = <<>>
           ELSE Len(out') = 1 /\ out'[1] \in ErrorLines)
     /\ (PollOk =>
           /\ ~state'.outage
           /\ \A line \in ErrorLines : Count(out', line) = 0
           /\ Count(out', "log: outage resolved.")
                = IF state.outage THEN 1 ELSE 0)
     /\ (~(PollErr \/ PollOk) => state'.outage = state.outage)]_vars

\* a poll succeeded after two failed polls in a row that followed a success
C22_Witness ==
  /\ ~state.outage
  /\ Count(out, "log: outage resolved.") = 1
  /\ reader_rounds # <<>>

\* C23: when the handling of a tick completes at T, the next tick is yielded
\* no earlier than T + interval.
C23_NextTickAfterInterval ==
  (tick_fut # <<>> /\ done_at # <<>>) =>
    tick_fut.yielded >= done_at[1] + IntervalSecs

\* C24: when no worker is active at startup, the program logs an error and
\* the process terminates with a nonzero exit code.
C24_NoWorkersExitNonzero ==
  (process # <<>> /\ ActiveWorkers(start_cfg) = 0) =>
    /\ process.log # <<>>
    /\ process.exit # <<>>
    /\ process.exit[1] # 0

\* C25: a capacity rescan leaves the round state unchanged and starts no
\* reading; a round reads the plot set the Reader holds when the round starts,
\* so a new plot set is used from the next round start.
C25_RescanKeepsRound ==
  [][/\ RefreshCapacity =>
          /\ state' = state
          /\ reader_rounds' = reader_rounds
          /\ round_plots' = round_plots
     /\ reader_rounds' # reader_rounds =>
          /\ Len(round_plots') = Len(reader_rounds')
          /\ round_plots'[Len(round_plots')] = reader_plots]_vars

\* a round started on a plot set that a rescan during the round before it
\* had found, and that round had read another plot set
C25_Witness ==
  /\ Len(round_plots) = 2
  /\ round_plots[1] # round_plots[2]
  /\ round_plots[2] = reader_plots
  /\ state.scanning

\* the deadlines of the first n scoops of a buffer
ScoopDeadlines(data, n, gensig) ==
  [i \in 1..n |-> ScoopDeadline(gensig, data[i])]

\* C26: the kernel returns the minimum deadline of the first N scoops and the
\* lowest offset in [0, N) of a scoop that has it; the scoops from index N on
\* do not change the result.
C26_KernelMinLowestOffset ==
  kernel # <<>> =>
    LET n == kernel.nonce_count
        ds == ScoopDeadlines(kernel.data, n, kernel.gensig)
        r == kernel.result
    IN  /\ r.offset \in 0..(n - 1)
        /\ ds[r.offset + 1] = r.deadline
        /\ \A i \in 1..n : ds[i] >= r.deadline
        /\ \A i \in 1..r.offset : ds[i] > r.deadline
        /\ \A other \in KernelBuffers :
             (\A i \in 1..n : other[i] = kernel.data[i]) =>
               FindBestDeadlineRust(other, n, kernel.gensig) = r

\* the winning scoop is the last of the first N, two of the first N scoops
\* tie, and a scoop after them has a smaller deadline
C26_Witness ==
  /\ kernel # <<>>
  /\ kernel.nonce_count = 2
  /\ kernel.data[1] = kernel.data[2]
  /\ kernel.result.offset = 0
  /\ ScoopDeadline(kernel.gensig, kernel.data[3]) < kernel.result.deadline

\* the finished-flagged NonceData tagged with block b that were emitted
FinishedEmitted(b) ==
  Cardinality({i \in DOMAIN consumed :
                 /\ consumed[i].nonce_data.reader_task_processed
                 /\ consumed[i].nonce_data.block = b})
    + Cardinality({i \in DOMAIN rx_nonce_data :
                     /\ rx_nonce_data[i].reader_task_processed
                     /\ rx_nonce_data[i].block = b})

\* every drive gave at most one finished signal in a round
OneFinishedPerDrive ==
  \A b \in 1..Len(reader_rounds) : FinishedEmitted(b) <= ReaderTaskCount

\* the finished-flagged NonceData of the current block consumed since the
\* round started
FinishedThisRound ==
  {i \in DOMAIN consumed :
     /\ consumed[i].block = state.block
     /\ consumed[i].nonce_data.reader_task_processed
     /\ consumed[i].nonce_data.block = state.block}

\* C27: processed_reader_tasks is the number of finished-flagged NonceData of
\* the current block consumed since the round started, it never exceeds
\* reader_task_count, and a round is declared finished only after every drive
\* has delivered its finished signal for that round (while the consumer task
\* runs and the Reader gives one finished signal a drive and round).
C27_CountsFinishedDrives ==
  (OneFinishedPerDrive /\ consumer_alive) =>
    /\ state.processed_reader_tasks = Cardinality(FinishedThisRound)
    /\ state.processed_reader_tasks <= ReaderTaskCount
    /\ \A k \in DOMAIN round_finished :
         Cardinality({i \in DOMAIN consumed :
                        /\ consumed[i].nonce_data.reader_task_processed
                        /\ consumed[i].nonce_data.block = round_finished[k]})
           >= ReaderTaskCount

\* C28: for a ReadReply with len 0, and for every ReadReply in benchmark
\* mode, the hash task hashes nothing; with finished set it sends the sentinel
\* (deadline u64::MAX, nonce 0, reader_task_processed) with the reply's
\* height, block, base_target and account_id, and without it the task only
\* returns the buffer; a NonceData reaches the channel only by such a send.
C28_ZeroWorkReplies ==
  [][/\ HashStart =>
          LET info == Head(pool_queue)
          IN  (info.len = 0 \/ cfg.benchmark_io) =>
                \E t \in BagToSet(running') :
                  /\ CopiesIn(t, running') = CopiesIn(t, running) + 1
                  /\ t.info = info
                  /\ IF info.finished
                       THEN /\ t.pc = "send"
                            /\ t.nd = [height |-> info.height,
                                       block |-> info.block,
                                       base_target |-> info.base_target,
                                       deadline |-> U64_MAX, nonce |-> 0,
                                       reader_task_processed |-> TRUE,
                                       account_id |-> info.account_id]
                       ELSE t.pc = "return"
     /\ rx_nonce_data' # rx_nonce_data /\ ~ConsumerStep =>
          \E t \in BagToSet(running) :
            /\ t.pc = "send"
            /\ rx_nonce_data' = Append(rx_nonce_data, t.nd)
            /\ CopiesIn(t, running') = CopiesIn(t, running) - 1]_vars

\* in benchmark mode the task of a finished reply of one scoop is about to
\* send the sentinel
C28_Witness ==
  /\ cfg.benchmark_io
  /\ \E t \in BagToSet(running) :
       /\ t.pc = "send"
       /\ t.info.len = 64
       /\ t.info.finished
       /\ t.nd.deadline = U64_MAX
       /\ t.nd.nonce = 0

\* the input has paused and the timer has expired: nothing is on the channel,
\* held or in flight
C29_Drained ==
  tx_submit_data = <<>> /\ delayed_item = <<>> /\ submitting = <<>>

\* C29: once the input has paused long enough for the timer to expire, every
\* item PrioRetry received and did not give out is less than or equal to, in
\* the order of SubmissionParameters, an item that it did give out.
C29_UnemittedDominated ==
  C29_Drained =>
    \A i \in DOMAIN arrived :
      arrived[i].item \notin Elems(sent) =>
        \E k \in DOMAIN sent : Le(arrived[i].item, sent[k])

\* C30: the delay before an item is given out grows with the number of times
\* the item was enqueued in a row: an item given out again right after itself
\* (a retry) was held strictly longer than the time before.
C30_RetryWaitsLonger ==
  \A k \in 2..Len(sent) : sent[k] = sent[k - 1] => waits[k] > waits[k - 1]

\* the X-Capacity header of the request in client_out, <<>> if it has none
CapacityHeader(request) ==
  IF "x-capacity" \in DOMAIN request.headers
    THEN <<request.headers["x-capacity"]>> ELSE <<>>

\* a request is issued by this step
RequestStep == client_out' # <<>> /\ client_out' # client_out

\* C31: with proxy details, every getMiningInfo and submitNonce request issued
\* after a capacity rescan, by the poller's clone of the Pool Client and by the
\* submission task's clone, carries the X-Capacity of the latest rescan;
\* without proxy details a rescan leaves the headers as they are.
C31_ClonesCarryRescannedCapacity ==
  [][/\ (RequestStep /\ last_rescan # <<>>
           /\ pool_client.proxy_details = "Enabled")
          => CapacityHeader(client_out') = <<Decimal(last_rescan[1])>>
     /\ (last_rescan' # last_rescan /\ pool_client.proxy_details = "Disabled")
          => pool_client'.headers = pool_client.headers]_vars

\* C31 witness: with proxy details and a configured X-Capacity of 9, a rescan
\* found two drives and the submission task's request carries X-Capacity 2.
C31_Witness ==
  /\ pool_client # <<>>
  /\ pool_client.proxy_details = "Enabled"
  /\ client_in.additional_headers # <<>>
  /\ last_rescan = <<2>>
  /\ client_out # <<>>
  /\ client_out.op = "submit_nonce"
  /\ CapacityHeader(client_out) = <<Decimal(2)>>

\* the round state: every field of State but the stopwatch and the two flags
\* of the outage log
RoundState(s) ==
  [generation_signature |-> s.generation_signature,
   generation_signature_bytes |-> s.generation_signature_bytes,
   height |-> s.height, block |-> s.block, scoop |-> s.scoop,
   base_target |-> s.base_target,
   server_target_deadline |-> s.server_target_deadline,
   account_id_to_best_deadline |-> s.account_id_to_best_deadline,
   processed_reader_tasks |-> s.processed_reader_tasks,
   scanning |-> s.scanning]

\* C32: a failed getMiningInfo poll leaves the generation signature, height,
\* block, scoop, base target, server target deadline, best deadlines,
\* processed_reader_tasks and scanning as they are and calls neither
\* Reader.start_reading nor Reader.wakeup; only first and outage may change.
C32_FailedPollKeepsRound ==
  [][PollErr => /\ RoundState(state') = RoundState(state)
                /\ reader_rounds' = reader_rounds
                /\ round_plots' = round_plots
                /\ Count(out', "wakeup") = 0
                /\ ~StatePoisoned => state'.outage /\ ~state'.first]_vars

\* C32 witness: a poll has failed while a round is being scanned in which an
\* account has a best deadline, and the failure is the last poll.
C32_Witness ==
  /\ state.outage
  /\ state.scanning
  /\ state.block = 2
  /\ \E a \in DOMAIN state.account_id_to_best_deadline :
       state.account_id_to_best_deadline[a] < U64_MAX
  /\ out = <<"log: error getting mining info => connection outage...">>

\* C33: the interval never coalesces ticks: however long the handling of a
\* tick takes, the tick after it is yielded at least the interval after it was
\* yielded, so after an outage one tick is ready and no burst of requests
\* follows.
C33_TicksAtLeastIntervalApart ==
  (tick_fut # <<>> /\ done_at # <<>>)
    => tick_fut.yielded >= done_at[2] + IntervalSecs

\* C33 witness: the handling of a tick ran into the timeout, longer than the
\* interval, the next tick was yielded the instant it completed, and that
\* tick's handling has completed with no further tick ready.
C33_Witness ==
  /\ done_at # <<>>
  /\ tick_fut = <<>>
  /\ done_at[2] >= IntervalSecs + TimeoutSecs
  /\ done_at[1] = done_at[2]
  /\ now < interval_sleep

\* the finished signals of block b the consumer has taken while State.block
\* was b
FinishedSignals(b) ==
  {i \in DOMAIN consumed :
     /\ consumed[i].block = b
     /\ consumed[i].nonce_data.block = b
     /\ consumed[i].nonce_data.reader_task_processed}

\* a finished signal of another block was taken while State.block was b
StaleSignal(b) ==
  \E i \in DOMAIN consumed :
    /\ consumed[i].block = b
    /\ consumed[i].nonce_data.block # b
    /\ consumed[i].nonce_data.reader_task_processed

\* C34 (as claimed): a round started on the Reader's current plot set, with no
\* stale signal taken, is logged as finished exactly when the consumer has
\* taken as many finished signals of the round as the plot set has drives.
C34_FinishedFollowsPlotSet ==
  LET b == state.block IN
  (/\ b >= 1
   /\ consumer_alive
   /\ round_plots[b] = reader_plots
   /\ round_plots[b] # {}
   /\ ~StaleSignal(b))
    => (b \in Elems(round_finished)
          <=> Cardinality(FinishedSignals(b)) = Cardinality(round_plots[b]))

\* the mutex a task is waiting for in lock(), "" if it is not in lock()
WaitsOn(t) ==
  CASE task_pc[t] = "lock_state" -> "state"
    [] task_pc[t] = "lock_reader" -> "reader"
    [] task_pc[t] = "lock_request_handler" -> "request_handler"
    [] OTHER -> ""

\* task t is suspended at an await: on the HTTP response, the timer or the
\* channel, or, in the async_io build, in lock().await of a mutex that
\* another task holds
Suspended(t) ==
  \/ task_pc[t] \in {"http", "sleep", "recv"}
  \/ async_io /\ WaitsOn(t) # "" /\ locks[WaitsOn(t)] \notin {"", t}

\* C35 (as claimed): no task is suspended at an await while it holds the
\* RoundState mutex.
C35_StateNotHeldAcrossAwait ==
  \A t \in Tasks : locks["state"] = t => ~Suspended(t)

\* task t waits for a mutex that task u holds
WaitsFor(t, u) == WaitsOn(t) # "" /\ locks[WaitsOn(t)] = u

\* C36: the poller, the rescan and the nonce consumer never deadlock on the
\* RoundState, Reader and RequestHandler mutexes: no task waits for a mutex it
\* holds itself, and no two or three tasks wait for each other in a cycle.
C36_NoLockCycle ==
  \A t, u, v \in Tasks :
    /\ ~WaitsFor(t, t)
    /\ ~(WaitsFor(t, u) /\ WaitsFor(u, t))
    /\ ~(WaitsFor(t, u) /\ WaitsFor(u, v) /\ WaitsFor(v, t))

\* C36 witness: all three mutexes are contended at once: the poller holds
\* State and waits for the Reader, which the rescan holds, and the consumer
\* waits for State.
C36_Witness ==
  /\ locks["state"] = "poller"
  /\ locks["reader"] = "rescan"
  /\ WaitsFor("poller", "rescan")
  /\ WaitsFor("consumer", "poller")

C38_RoundStartAtomic ==
  [][/\ gensig_changes' # gensig_changes =>
          /\ state'.block = state.block + 1
          /\ state'.scanning
          /\ Len(reader_rounds') = Len(reader_rounds) + 1
          /\ SubSeq(reader_rounds', 1, Len(reader_rounds)) = reader_rounds
          /\ reader_rounds'[Len(reader_rounds')] =
               [height |-> state'.height, block |-> state'.block,
                base_target |-> state'.base_target,
                scoop |-> CalculateScoop(
                            state'.height,
                            DecodeGensig(state'.generation_signature)),
                gensig |-> DecodeGensig(state'.generation_signature)]
     /\ gensig_changes' = gensig_changes =>
          reader_rounds' = reader_rounds /\ state'.block = state.block
     /\ \A i \in DOMAIN consumed' :
          consumed'[i].nonce_data.block <= consumed'[i].block]_vars

\* C38 witness: the second generation-signature change has started round 2,
\* and the consumer has taken a NonceData of block 2 with State.block at 2.
C38_Witness ==
  /\ gensig_changes = 2
  /\ Len(reader_rounds) = 2
  /\ reader_rounds[2].block = 2
  /\ \E i \in DOMAIN consumed :
       consumed[i].nonce_data.block = 2 /\ consumed[i].block = 2

\* C39 (as claimed): whatever MiningInfo the pool sends and whatever NonceData
\* arrives, the nonce consumer and the mining-info poller never abort.
C39_NoTaskAborts == consumer_alive /\ poller_alive

\* the consumer step in which processed_reader_tasks reaches reader_task_count
C40_RoundCompletion ==
  /\ cfg.submit_only_best
  /\ ConsumerStep
  /\ state'.processed_reader_tasks = ReaderTaskCount
  /\ state'.processed_reader_tasks # state.processed_reader_tasks

\* every NonceData consumed so far was taken in the round it was produced in
C40_NoStaleNonceData ==
  \A i \in DOMAIN consumed' :
    consumed'[i].nonce_data.block = consumed'[i].block

\* C40 (as claimed): with submit_only_best, the nonce forwarded when a round
\* completes carries the block of that round and the smallest of the best
\* deadlines the round recorded over all accounts; when the round recorded
\* none (every account's best deadline is still u64::MAX), nothing is
\* forwarded. Stated for the runs in which no NonceData of an earlier round
\* reaches the consumer, so that it does not rest on the missing block test.
C40_BestOfRoundForwarded ==
  [][(C40_RoundCompletion /\ C40_NoStaleNonceData) =>
       LET bests == state'.account_id_to_best_deadline
           forwarded == tx_submit_data'[Len(tx_submit_data')]
       IN IF \A a \in DOMAIN bests : bests[a] = U64_MAX
          THEN tx_submit_data' = tx_submit_data
          ELSE tx_submit_data' # tx_submit_data =>
                  /\ forwarded.block = state.block
                  /\ \A a \in DOMAIN bests : forwarded.deadline <= bests[a]
    ]_vars

====
